---- MODULE Spec2Model ----
(***************************************************************************)
(* Force-discharge scheduler of deye-force-discharger (app.py) together    *)
(* with the Deye cloud client it drives (deye_client.py).                  *)
(*                                                                         *)
(* The scheduler thread is modelled one step per blocking call: a step     *)
(* starts when a gateway call (or time.sleep) returns and runs up to the   *)
(* next one.  Request handlers (manual work-mode override, configuration   *)
(* update, re-initialisation) run on other threads and interleave with     *)
(* those steps.  Of current_state the model keeps mode, soc,               *)
(* battery_power, force_discharge_active, last_error, scheduler_status and *)
(* the weather-skip fields.                                                *)
(*                                                                         *)
(* The program is specified as components that share the state below:      *)
(*   Spec, SpecTestDouble, SpecCycles, SpecSnapshot, SpecConsecutive,     *)
(*   SpecSync  the scheduler with the request handlers, the weather check  *)
(*       being taken by its (skip, reason) result;                         *)
(*   SpecLifecycle, SpecLifecycleFair  the scheduler thread with           *)
(*       start_scheduler and stop_scheduler;                               *)
(*   SpecForecast   the forecast cache behind get_weather_forecast with    *)
(*       the handlers that clear it;                                       *)
(*   SpecWeatherFetch  one call of WeatherClient.get_forecast, exchange    *)
(*       by exchange;                                                      *)
(*   SpecWindow, SpecSkip, SpecWeatherCheck, SpecBadDay, SpecEstimator,    *)
(*   SpecFullDay, SpecGateway, SpecTou  the functions without shared       *)
(*       state, applied to every input of a bounded set.                   *)
(***************************************************************************)
EXTENDS Integers, Sequences, FiniteSets, TLC

\* ------------------------------------------------------------------ bounds
MaxSoc == 3          \* battery SoC readings range over 1..MaxSoc
DayLen == 3          \* instants of one day, 0..DayLen-1
MaxForecasts == 2    \* distinct forecasts the provider can return
ClockStep == 150     \* seconds between two observations of the clock
MaxClock == 900      \* seconds of operation observed
MaxDays == 3         \* days of a forecast, 0..MaxDays
MaxKwh == 2          \* solar estimates and thresholds, in kWh, up to MaxKwh
SleepIncrements == 2 \* one-second sleeps between two cycles (range(30))
MaxSamples == 2      \* hourly samples cached for the requested date

\* --------------------------------------------------------------- constants
MODE_NORMAL == "ZERO_EXPORT_TO_CT"
MODE_FORCE_DISCHARGE == "SELLING_FIRST"
MODE_ZERO_EXPORT_TO_LOAD == "ZERO_EXPORT_TO_LOAD"
Modes == {MODE_NORMAL, MODE_FORCE_DISCHARGE, MODE_ZERO_EXPORT_TO_LOAD}

SocNone == -1        \* Python None as a SoC reading
NoError == "None"    \* Python None as last_error or weather_skip_reason
Absent == "<absent>" \* a key missing from a response dict
SocReadings == (1..MaxSoc) \cup {SocNone}

\* The dict get_battery_info returns: "soc" and "power" are both None when
\* the request raised or the response was not a success; a success response
\* without a usable SOC item leaves "soc" None.
PowerNone == "None"
PowerReported == "reported"
BatteryReadings ==
    {[ok |-> TRUE, soc |-> soc, power |-> PowerReported] : soc \in SocReadings}
      \cup {[ok |-> FALSE, soc |-> SocNone, power |-> PowerNone]}

\* ------------------------------------------------------------ configuration
\* config["schedule"], the keys the scheduler reads; reactivation_margin is
\* a key the tests put in the schedule.
\* The window is an overnight one: it starts at the last instant of the day
\* and ends at the first.
ScheduleConfigs ==
    { [enabled |-> e, min_soc_reserve |-> 1, force_discharge_cutoff_soc |-> 2,
       reactivation_margin |-> 1,
       force_discharge_start |-> DayLen - 1, force_discharge_end |-> 0] :
      e \in BOOLEAN }

\* Two schedules a user switches between, which differ in the window and in
\* the cutoff: an overnight window from the last instant of the day to the
\* first, and a same-day window over the first two instants
RescheduledConfigs ==
    { [enabled |-> TRUE, min_soc_reserve |-> 1, force_discharge_cutoff_soc |-> 2,
       reactivation_margin |-> 1,
       force_discharge_start |-> DayLen - 1, force_discharge_end |-> 0],
      [enabled |-> TRUE, min_soc_reserve |-> 1, force_discharge_cutoff_soc |-> 1,
       reactivation_margin |-> 1,
       force_discharge_start |-> 0, force_discharge_end |-> 1] }

\* is_within_discharge_window without the overnight branch
is_within_discharge_window_same_day(t, start, end) ==
    start <= t /\ t <= end

\* is_within_discharge_window, on instants of the day: start and end are
\* the instants now.replace(hour, minute, second=0, microsecond=0) gives
\* for the configured times, t is datetime.now(), and DayLen instants make
\* timedelta(days=1)
is_within_discharge_window(t, start, end) ==
    LET end_time == IF end <= start THEN end + DayLen ELSE end
        now_time == IF end <= start /\ t < start THEN t + DayLen ELSE t
    IN  start <= now_time /\ now_time <= end_time

\* config.get("free_energy", {}): the key may be missing, and so may
\* "enabled" in it
FreeEnergyConfigs ==
    {[present |-> FALSE, enabled |-> Absent, start_time |-> 0, end_time |-> 0]}
      \cup [present : {TRUE}, enabled : {Absent, "True", "False"},
            start_time : 0..(DayLen - 1), end_time : 0..(DayLen - 1)]

\* free_energy.get("enabled", False)
FreeEnergyEnabled(free_energy) ==
    free_energy.present /\ free_energy.enabled = "True"

\* is_within_free_energy_window without the test of the enabled flag
is_within_free_energy_window_ignoring_enabled(free_energy, t) ==
    LET start == free_energy.start_time
        end == free_energy.end_time
        end_time == IF end <= start THEN end + DayLen ELSE end
        now_time == IF end <= start /\ t < start THEN t + DayLen ELSE t
    IN  start <= now_time /\ now_time <= end_time

\* is_within_free_energy_window
is_within_free_energy_window(free_energy, t) ==
    IF ~FreeEnergyEnabled(free_energy) THEN FALSE
    ELSE LET start == free_energy.start_time
             end == free_energy.end_time
             end_time == IF end <= start THEN end + DayLen ELSE end
             now_time == IF end <= start /\ t < start THEN t + DayLen ELSE t
         IN  start <= now_time /\ now_time <= end_time

\* should_skip_discharge_for_weather: the (skip, reason) pairs it returns
WeatherResults ==
    {[skip |-> FALSE, reason |-> "Weather check disabled"],
     [skip |-> TRUE,  reason |-> "Low solar"]}

\* ----------------------------------------------------------------- gateway
\* Keyword parameters DeyeCloudClient.set_tou_settings declares
TouParameters ==
    {"window_start", "window_end", "min_soc_reserve", "window_soc", "power"}
\* Keyword arguments the scheduler passes to client.set_tou_settings
TouKeywords ==
    {"window_start", "window_end", "min_soc_reserve", "window_soc", "power",
     "free_energy_start", "free_energy_end", "free_energy_soc"}
TypeErrorText ==
    "DeyeCloudClient.set_tou_settings() got an unexpected keyword argument 'free_energy_start'"
RequestErrorText == "HTTPError"

\* The call client.set_tou_settings(**TouKeywords) binds on a DeyeCloudClient
\* only if every keyword is a declared parameter; a Mock accepts any call.
TouCallBinds(impl) ==
    impl = "Mock" \/ TouKeywords \subseteq TouParameters

\* Payload built by DeyeCloudClient.set_tou_settings: six time-anchored
\* segments, the one anchored at window_start carrying window_soc.
set_tou_settings(min_soc_reserve, window_soc) ==
    << [time |-> "00:00",        soc |-> min_soc_reserve],
       [time |-> "06:00",        soc |-> min_soc_reserve],
       [time |-> "12:00",        soc |-> min_soc_reserve],
       [time |-> "window_start", soc |-> window_soc],
       [time |-> "window_end",   soc |-> min_soc_reserve],
       [time |-> "23:00",        soc |-> min_soc_reserve] >>

\* Outcomes of a gateway command: the response dict, or an exception raised
\* by _make_request (raise_for_status, connection errors)
OkResult     == [kind |-> "ok",     success |-> TRUE,  code |-> "1000000", msg |-> "success"]
OkZeroResult == [kind |-> "ok",     success |-> TRUE,  code |-> "0",       msg |-> "success"]
FailResult   == [kind |-> "reject", success |-> FALSE, code |-> "2101",    msg |-> "Failed"]
FailNoMsg    == [kind |-> "reject", success |-> FALSE, code |-> "2101",    msg |-> Absent]
Raised       == [kind |-> "raise",  success |-> FALSE, code |-> Absent,    msg |-> RequestErrorText]
NoResult     == [kind |-> "none",   success |-> FALSE, code |-> Absent,    msg |-> Absent]
CommandResults == {OkResult, FailResult, FailNoMsg, Raised}
\* the same, telling apart the two success codes POST /api/work-mode sees
ManualResults == {OkResult, OkZeroResult, FailResult, Raised}

\* mode_result.get("msg", "Unknown error")
ErrorMessage(r) == IF r.msg = Absent THEN "Unknown error" ELSE r.msg

\* Outcomes of client.get_work_mode() as the scheduler distinguishes them
ModeReadOutcomes == {"ok", "fail", "raise"}

VARIABLES
    client_impl,    \* class of the object bound to app.client
    config,         \* config["schedule"]
    request_bodies, \* the schedules that POST /api/config requests carry
    tou_sync,       \* the last client.set_tou_settings call a configuration
                    \* request made: whether it bound, and its window_soc
    current_state,  \* app.current_state: mode, soc, battery_power,
                    \* force_discharge_active, last_error, scheduler_status,
                    \* weather_skip_active, weather_skip_reason
    scheduler_running, \* app.scheduler_running
    inv_mode,       \* work mode the inverter is really in
    now,            \* instant of the day
    pc,             \* where the scheduler thread is
    loc,            \* locals of the running scheduler cycle
    calls,          \* gateway calls the scheduler made in the running cycle
    confirmed_mode, \* last mode read back from the inverter
    prev,           \* summary of the previous cycle when one of its commands
                    \* failed (recorded under SpecCycles only)
    weather_forecast_cache, \* app.weather_forecast_cache
    weather_ready,  \* weather_client and weather_analyser are both set
    fetch,          \* the call of get_weather_forecast in progress
    clock,          \* seconds elapsed, as datetime.now() measures cache age
    returned,       \* what the last call of get_weather_forecast returned
    last_fetch,     \* when weather_client.get_forecast() was last called on
                    \* the present weather client (history)
    fn_args,        \* arguments of a pure function
    fn_result,      \* what the function returned for them
    loop_threads,   \* scheduler_loop threads started and not yet ended
    start_result,   \* what the last call of start_scheduler returned
    pc2             \* where a loop thread is that start_scheduler created
                    \* while the earlier one had not ended: "none", "start"
                    \* or "loop" (in its cycles and sleeps)

forecastVars == <<weather_forecast_cache, weather_ready, fetch, clock, returned,
                  last_fetch>>
functionVars == <<fn_args, fn_result>>
lifecycleVars == <<loop_threads, start_result, pc2>>
otherVars == <<forecastVars, functionVars, lifecycleVars>>

vars == <<client_impl, request_bodies, tou_sync, config, current_state, scheduler_running, inv_mode, now,
          pc, loc, calls, confirmed_mode, prev, forecastVars, functionVars,
          lifecycleVars>>

NoLocals ==
    [schedule |-> CHOOSE sch \in ScheduleConfigs : sch.enabled,
     soc |-> SocNone, in_window |-> FALSE, weather_skip |-> FALSE,
     weather_reason |-> NoError, should_force_discharge |-> FALSE,
     battery |-> "none", sleeps_left |-> 0,
     read |-> "none", actual_mode |-> "", was_active |-> FALSE, target |-> "",
     mode_result |-> NoResult, tou_result |-> NoResult]

\* The command of a cycle that failed: "mode", "tou" or "none"
FailedCommand(l) ==
    IF l.mode_result.kind \in {"reject", "raise"} THEN "mode"
    ELSE IF l.tou_result.kind \in {"reject", "raise"} THEN "tou"
    ELSE "none"

\* What is kept of a cycle: which command failed, its target and the inputs
\* of its decision; nothing of a cycle without a failed command
Summary(l) ==
    IF FailedCommand(l) = "none"
      THEN [failed |-> "none", target |-> "", soc |-> SocNone,
            in_window |-> FALSE, weather_skip |-> FALSE,
            schedule |-> NoLocals.schedule, read |-> "none", actual_mode |-> ""]
      ELSE [failed |-> FailedCommand(l), target |-> l.target, soc |-> l.soc,
            in_window |-> l.in_window, weather_skip |-> l.weather_skip,
            schedule |-> l.schedule, read |-> l.read, actual_mode |-> l.actual_mode]

\* ------------------------------------------------------------------- Init
\* weather_forecast_cache as the module creates it
NoForecast == 0      \* Python None as a forecast
NoTime == -1         \* Python None as last_update
\* get_weather_forecast has not returned yet
NotCalled == [how |-> "none", forecast |-> NoForecast]
EmptyCache == [forecast |-> NoForecast, last_update |-> NoTime]

\* The forecast cache before any call of get_weather_forecast, the weather
\* client being initialised
ForecastAtRest ==
    /\ weather_forecast_cache = EmptyCache
    /\ weather_ready = TRUE
    /\ fetch = "idle"
    /\ clock = 0
    /\ returned = NotCalled
    /\ last_fetch = NoTime

\* No call of start_scheduler has returned since main's
NotStarted == "none"

\* No pure function is being applied
FunctionsAtRest ==
    /\ fn_args = <<>>
    /\ fn_result = <<>>

\* No configuration request has synchronised the TOU schedule yet
NoSync == [called |-> FALSE, bound |-> FALSE, window_soc |-> SocNone]

\* window_soc the configuration requests choose for the discharge window
SyncWindowSoc(active, schedule) ==
    IF active THEN schedule.force_discharge_cutoff_soc
              ELSE schedule.min_soc_reserve

\* State once __main__ has run load_config, init_client and start_scheduler
\* and the loop thread has started: init_client has read the work mode and
\* the battery (or failed to). schedules are the schedules the configuration
\* file and the requests of a run may hold.
InitWith(schedules) ==
    /\ request_bodies = schedules
    /\ tou_sync = NoSync
    /\ config \in schedules
    /\ inv_mode \in Modes
    /\ \E read_ok \in BOOLEAN, reading \in BatteryReadings :
         /\ current_state =
              [mode |-> IF read_ok THEN inv_mode ELSE "unknown",
               soc |-> reading.soc,
               battery_power |-> reading.power,
               force_discharge_active |-> read_ok /\ inv_mode = MODE_FORCE_DISCHARGE,
               last_error |-> NoError,
               scheduler_status |-> "running",
               weather_skip_active |-> FALSE,
               weather_skip_reason |-> NoError]
         /\ confirmed_mode = (IF read_ok THEN inv_mode ELSE "unknown")
    /\ scheduler_running = TRUE
    /\ now = 0
    /\ pc = "sleep"
    /\ loc = NoLocals
    /\ calls = <<>>
    /\ prev = Summary(NoLocals)
    /\ ForecastAtRest
    /\ FunctionsAtRest
    /\ loop_threads = 1
    /\ start_result = NotStarted
    /\ pc2 = "none"

InitCommon == InitWith(ScheduleConfigs)

Init == InitCommon /\ client_impl = "DeyeCloudClient"

\* ------------------------------------------------------- scheduler thread
\* One entry per call the scheduler issues, in the order it issues them
Call(op, arg) == [op |-> op, arg |-> arg, payload |-> <<>>]

\* scheduler_loop, top of the while body: snapshot of the schedule dict and
\* the call of client.get_battery_info()
CycleBegin ==
    /\ pc = "sleep"
    /\ loc.sleeps_left = 0
    /\ scheduler_running
    /\ pc' = "battery"
    /\ loc' = [NoLocals EXCEPT !.schedule = config]
    /\ calls' = <<Call("get_battery_info", "")>>
    /\ UNCHANGED <<otherVars, scheduler_running, client_impl, request_bodies, tou_sync, config, current_state, inv_mode, now,
                   confirmed_mode, prev>>

\* should_force_discharge with the cutoff comparison made inclusive
should_force_discharge_inclusive(enabled, in_window, soc, cutoff_soc, weather_skip) ==
    enabled /\ in_window /\ (soc = SocNone \/ soc >= cutoff_soc) /\ ~weather_skip

\* should_force_discharge without the weather condition
should_force_discharge_no_weather(enabled, in_window, soc, cutoff_soc, weather_skip) ==
    enabled /\ in_window /\ (soc = SocNone \/ soc > cutoff_soc)

\* should_force_discharge asking for a known SoC
should_force_discharge_known_soc(enabled, in_window, soc, cutoff_soc, weather_skip) ==
    enabled /\ in_window /\ (soc # SocNone /\ soc > cutoff_soc) /\ ~weather_skip

\* should_force_discharge without the enabled flag
should_force_discharge_always_enabled(enabled, in_window, soc, cutoff_soc, weather_skip) ==
    in_window /\ (soc = SocNone \/ soc > cutoff_soc) /\ ~weather_skip

\* should_force_discharge as scheduler_loop computes it
should_force_discharge(enabled, in_window, soc, cutoff_soc, weather_skip) ==
    enabled /\ in_window /\ (soc = SocNone \/ soc > cutoff_soc) /\ ~weather_skip

\* current_state["soc"] once get_battery_info has returned
StoredSoc(battery_info, stored) == battery_info.soc

\* last_error once get_battery_info has returned
ErrorAfterBattery(battery_info, last_error) ==
    IF battery_info.soc # SocNone THEN NoError ELSE last_error

\* get_battery_info() has returned: state update, window membership, weather
\* check, target computation, then the call of client.get_work_mode()
BatteryReturn ==
    /\ pc = "battery"
    /\ \E battery_info \in BatteryReadings, weather \in WeatherResults :
         LET soc == battery_info.soc
             in_window == is_within_discharge_window(now,
                              config.force_discharge_start,
                              config.force_discharge_end)
         IN  /\ current_state' =
                   [current_state EXCEPT
                      !.soc = StoredSoc(battery_info, @),
                      !.battery_power = battery_info.power,
                      !.last_error = ErrorAfterBattery(battery_info, @),
                      !.weather_skip_active = weather.skip,
                      !.weather_skip_reason = weather.reason]
             /\ loc' = [loc EXCEPT
                      !.battery = IF battery_info.ok THEN "ok" ELSE "fail",
                      !.soc = soc,
                      !.in_window = in_window,
                      !.weather_skip = weather.skip,
                      !.weather_reason = weather.reason,
                      !.should_force_discharge =
                          should_force_discharge(loc.schedule.enabled, in_window, soc,
                              loc.schedule.force_discharge_cutoff_soc, weather.skip)]
    /\ calls' = Append(calls, Call("get_work_mode", ""))
    /\ pc' = "mode"
    /\ UNCHANGED <<otherVars, scheduler_running, client_impl, request_bodies, tou_sync, config, inv_mode, now, confirmed_mode, prev>>

\* ActiveAfterRead keeping the stored flag, without resynchronisation
ActiveAfterRead_stale(outcome, active) == active

\* ActiveAfterRead taking a failed read for an inactive inverter
ActiveAfterRead_reset(outcome, active) ==
    IF outcome = "ok" THEN inv_mode = MODE_FORCE_DISCHARGE ELSE FALSE

\* current_state["force_discharge_active"] after the work-mode read
ActiveAfterRead(outcome, active) ==
    IF outcome = "ok" THEN inv_mode = MODE_FORCE_DISCHARGE ELSE active

\* TargetMode commanding the wanted mode whatever the mode that was read
TargetMode_unconditional(should, active) ==
    IF should THEN MODE_FORCE_DISCHARGE ELSE MODE_NORMAL

\* The transition the cycle attempts: the mode it passes to set_work_mode,
\* "" when the mode is already the wanted one
TargetMode(should, active) ==
    IF should /\ ~active THEN MODE_FORCE_DISCHARGE
    ELSE IF ~should /\ active THEN MODE_NORMAL
    ELSE ""

\* get_work_mode() has returned or raised: resynchronise mode and
\* force_discharge_active, then take the activate / deactivate decision and
\* call client.set_work_mode, or end the cycle
ModeReturn ==
    /\ pc = "mode"
    /\ \E outcome \in ModeReadOutcomes :
         LET active == ActiveAfterRead(outcome, current_state.force_discharge_active)
             target == TargetMode(loc.should_force_discharge, active)
         IN  /\ current_state' =
                   [current_state EXCEPT
                      !.mode = IF outcome = "ok" THEN inv_mode ELSE @,
                      !.force_discharge_active = active]
             /\ confirmed_mode' = IF outcome = "ok" THEN inv_mode ELSE confirmed_mode
             /\ loc' = [loc EXCEPT !.read = outcome,
                                   !.actual_mode = IF outcome = "ok" THEN inv_mode ELSE "",
                                   !.was_active = active,
                                   !.target = target]
             /\ pc' = IF target = "" THEN "done" ELSE "setmode"
             /\ calls' = IF target = "" THEN calls
                         ELSE Append(calls, Call("set_work_mode", target))
    /\ UNCHANGED <<otherVars, scheduler_running, client_impl, request_bodies, tou_sync, config, inv_mode, now, prev>>

\* ErrorAfterSetMode dropping the gateway's message
ErrorAfterSetMode_silent(r, last_error) == last_error

\* last_error once set_work_mode has returned or raised
ErrorAfterSetMode(r, last_error) ==
    IF r.kind = "ok" THEN last_error ELSE ErrorMessage(r)

\* set_work_mode(target) has returned or raised; on success time.sleep(5)
SetModeReturn ==
    /\ pc = "setmode"
    /\ \E r \in CommandResults :
         /\ loc' = [loc EXCEPT !.mode_result = r]
         /\ inv_mode' = IF r.kind = "ok" THEN loc.target ELSE inv_mode
         /\ current_state' =
               [current_state EXCEPT !.last_error = ErrorAfterSetMode(r, @)]
         /\ pc' = IF r.kind = "ok" THEN "settle" ELSE "done"
         /\ calls' = IF r.kind = "ok" THEN Append(calls, Call("sleep", "5")) ELSE calls
    /\ UNCHANGED <<otherVars, scheduler_running, client_impl, request_bodies, tou_sync, config, now, confirmed_mode, prev>>

\* window_soc argument of the scheduler's set_tou_settings call
WindowSoc(target, schedule) ==
    IF target = MODE_FORCE_DISCHARGE
      THEN schedule.force_discharge_cutoff_soc
      ELSE schedule.min_soc_reserve

\* ErrorAfterTou losing the text of an exception
ErrorAfterTou_unrecorded(r) == NoError

\* last_error after the set_tou_settings call of a cycle
ErrorAfterTou(r) ==
    IF r.kind = "raise" THEN r.msg ELSE NoError

\* time.sleep(5) is over: client.set_tou_settings(...) is called, returns or
\* raises, and the cycle ends
TouReturn ==
    /\ pc = "settle"
    /\ \E r \in IF TouCallBinds(client_impl)
                   THEN {OkResult, FailResult, Raised}
                   ELSE {[Raised EXCEPT !.msg = TypeErrorText]} :
         /\ loc' = [loc EXCEPT !.tou_result = r]
         /\ current_state' = [current_state EXCEPT !.last_error = ErrorAfterTou(r)]
         /\ calls' = Append(calls,
                 [op |-> "set_tou_settings",
                  arg |-> IF TouCallBinds(client_impl) THEN "bound" ELSE "TypeError",
                  payload |-> IF client_impl = "DeyeCloudClient" /\ TouCallBinds(client_impl)
                                THEN set_tou_settings(loc.schedule.min_soc_reserve,
                                         WindowSoc(loc.target, loc.schedule))
                                ELSE <<>>])
    /\ pc' = "done"
    /\ UNCHANGED <<otherVars, scheduler_running, client_impl, request_bodies, tou_sync, config, inv_mode, now, confirmed_mode, prev>>

\* The locals once the cycle body is over: the one-second sleeps are ahead
Sleeping == [NoLocals EXCEPT !.sleeps_left = SleepIncrements]

\* The cycle body is over: the loop of one-second sleeps is entered
CycleEnd ==
    /\ pc = "done"
    /\ pc' = "sleep"
    /\ loc' = Sleeping
    /\ calls' = <<>>
    /\ UNCHANGED <<otherVars, scheduler_running, client_impl, request_bodies, tou_sync, config, current_state, inv_mode, now,
                   confirmed_mode, prev>>

\* CycleEnd, keeping the summary of a cycle one of whose commands failed
CycleEndRecorded ==
    /\ pc = "done"
    /\ pc' = "sleep"
    /\ loc' = Sleeping
    /\ calls' = <<>>
    /\ prev' = Summary(loc)
    /\ UNCHANGED <<otherVars, scheduler_running, client_impl, request_bodies, tou_sync, config, current_state, inv_mode, now, confirmed_mode>>

\* CycleEnd, keeping the locals of the cycle that ends
CycleEndKept ==
    /\ pc = "done"
    /\ pc' = "sleep"
    /\ loc' = Sleeping
    /\ calls' = <<>>
    /\ prev' = loc
    /\ UNCHANGED <<otherVars, scheduler_running, client_impl, request_bodies, tou_sync, config, current_state, inv_mode, now, confirmed_mode>>

\* SleepAllowed sleeping the increments whatever the running flag
SleepAllowed_unchecked(running) == TRUE

\* The test the sleep loop makes before each increment
SleepAllowed(running) == running

\* One pass of the sleep loop: the running flag is found set and
\* time.sleep(1) is over
SleepIncrement ==
    /\ pc = "sleep"
    /\ loc.sleeps_left > 0
    /\ SleepAllowed(scheduler_running)
    /\ loc' = [loc EXCEPT !.sleeps_left = @ - 1]
    /\ UNCHANGED <<otherVars, scheduler_running, client_impl, request_bodies, tou_sync, config,
                   current_state, inv_mode, now, pc, calls, confirmed_mode,
                   prev>>

\* ------------------------------------------------------- request handlers
\* POST /api/work-mode
set_work_mode ==
    \E mode \in Modes \cup {""}, r \in ManualResults :
       /\ inv_mode' = IF mode # "" /\ r.kind = "ok" THEN mode ELSE inv_mode
       /\ IF mode # "" /\ r.kind # "raise" /\ r.code = "0"
            THEN current_state' =
                   [current_state EXCEPT
                      !.mode = mode,
                      !.force_discharge_active = (mode = MODE_FORCE_DISCHARGE)]
            ELSE UNCHANGED current_state
       /\ UNCHANGED <<otherVars, scheduler_running, client_impl, request_bodies, tou_sync, config, now, pc, loc, calls, confirmed_mode, prev>>

\* POST /api/config: replaces config["schedule"]
update_config ==
    /\ \E schedule \in request_bodies : config' = schedule
    /\ UNCHANGED <<otherVars, scheduler_running, client_impl, request_bodies, tou_sync, current_state, inv_mode, now, pc, loc, calls,
                   confirmed_mode, prev>>

\* The TOU synchronisation of a configuration request with update_tou: the
\* window SoC is chosen from current_state["force_discharge_active"] and
\* client.set_tou_settings is called with the free-energy keywords.
TouSync(schedule) ==
    tou_sync' = [called |-> TRUE,
                 bound |-> TouCallBinds(client_impl),
                 window_soc |-> SyncWindowSoc(current_state.force_discharge_active,
                                              schedule)]

\* POST /api/config with update_tou: replaces config["schedule"] when the
\* body carries one, then synchronises the TOU schedule
update_config_tou ==
    /\ \E schedule \in request_bodies \cup {config} :
          /\ config' = schedule
          /\ TouSync(schedule)
    /\ UNCHANGED <<otherVars, scheduler_running, client_impl, request_bodies, current_state, inv_mode, now, pc, loc, calls,
                   confirmed_mode, prev>>

\* POST /api/free-energy/config with update_tou: config["schedule"] is
\* left alone, the TOU schedule is synchronised
update_free_energy_config ==
    /\ TouSync(config)
    /\ UNCHANGED <<otherVars, scheduler_running, client_impl, request_bodies, config, current_state, inv_mode, now, pc, loc, calls,
                   confirmed_mode, prev>>

\* init_client: clears last_error, reads the work mode and the battery
init_client ==
    \E outcome \in ModeReadOutcomes, battery_info \in BatteryReadings :
       /\ current_state' =
             [current_state EXCEPT
                !.last_error = NoError,
                !.mode = IF outcome = "ok" THEN inv_mode ELSE @,
                !.force_discharge_active =
                    IF outcome = "ok" THEN inv_mode = MODE_FORCE_DISCHARGE ELSE @,
                !.soc = IF battery_info.soc # SocNone THEN battery_info.soc ELSE @,
                !.battery_power =
                    IF battery_info.power # PowerNone THEN battery_info.power ELSE @]
       /\ confirmed_mode' = IF outcome = "ok" THEN inv_mode ELSE confirmed_mode

\* POST /api/setup/complete: clears the forecast cache, then runs init_client
\* and init_weather_client, which sets the weather client and analyser when
\* the weather feature is enabled with a location and leaves them as they
\* were otherwise
complete_setup ==
    /\ weather_forecast_cache' = EmptyCache
    /\ init_client
    /\ weather_ready' \in {weather_ready, TRUE}
    /\ last_fetch' = NoTime
    /\ UNCHANGED <<fetch, clock, returned, functionVars, lifecycleVars,
                   scheduler_running,
                   client_impl, request_bodies, tou_sync, config, inv_mode, now, pc, loc, calls, prev>>

\* stop_scheduler
stop_scheduler ==
    /\ scheduler_running' = FALSE
    /\ UNCHANGED <<otherVars, client_impl, request_bodies, tou_sync, config, current_state, inv_mode, now,
                   pc, loc, calls, confirmed_mode, prev>>

\* The thread start_scheduler creates on a stopped scheduler whose earlier
\* loop thread has ended
ThreadStarted(running, position) ==
    IF running THEN position
    ELSE IF position = "stopped" THEN "start" ELSE position

\* The thread start_scheduler creates when the running flag is cleared and
\* the earlier loop thread has not ended yet
OverlappingThreadStarted(running, position, position2) ==
    IF ~running /\ position # "stopped" THEN "start" ELSE position2

\* ThreadsAfterStart creating a thread at every call
ThreadsAfterStart_always(running, threads) == threads + 1

\* Loop threads alive once start_scheduler has returned
ThreadsAfterStart(running, threads) ==
    IF running THEN threads ELSE threads + 1

\* start_scheduler: returns False when the running flag is set; otherwise
\* sets the flag, starts a loop thread and returns True, whether or not the
\* earlier loop thread has ended (two loop threads at most are followed)
start_scheduler ==
    /\ ~scheduler_running => (pc = "stopped" \/ pc2 = "none")
    /\ pc' = ThreadStarted(scheduler_running, pc)
    /\ pc2' = OverlappingThreadStarted(scheduler_running, pc, pc2)
    /\ loop_threads' = ThreadsAfterStart(scheduler_running, loop_threads)
    /\ start_result' = IF scheduler_running THEN "False" ELSE "True"
    /\ scheduler_running' = TRUE
    /\ UNCHANGED <<forecastVars, functionVars, client_impl, request_bodies, tou_sync, config,
                   current_state, inv_mode, now, loc, calls, confirmed_mode,
                   prev>>

\* scheduler_loop is entered: scheduler_status becomes "running"
LoopStart ==
    /\ pc = "start"
    /\ pc' = "sleep"
    /\ current_state' = [current_state EXCEPT !.scheduler_status = "running"]
    /\ UNCHANGED <<otherVars, scheduler_running, client_impl, request_bodies, tou_sync, config, inv_mode,
                   now, loc, calls, confirmed_mode, prev>>

\* The sleep loop (if it is running) and the while test find the running
\* flag cleared: scheduler_status becomes "stopped" and the thread ends
LoopExit ==
    /\ pc = "sleep"
    /\ ~scheduler_running
    /\ pc' = "stopped"
    /\ loc' = NoLocals
    /\ current_state' = [current_state EXCEPT !.scheduler_status = "stopped"]
    /\ loop_threads' = loop_threads - 1
    /\ UNCHANGED <<forecastVars, functionVars, start_result, pc2, scheduler_running,
                   client_impl, request_bodies, tou_sync, config, inv_mode, now, calls,
                   confirmed_mode, prev>>

\* scheduler_loop is entered by the overlapping thread
LoopStart2 ==
    /\ pc2 = "start"
    /\ pc2' = "loop"
    /\ current_state' = [current_state EXCEPT !.scheduler_status = "running"]
    /\ UNCHANGED <<forecastVars, functionVars, loop_threads, start_result,
                   scheduler_running, client_impl, request_bodies, tou_sync, config, inv_mode,
                   now, pc, loc, calls, confirmed_mode, prev>>

\* The overlapping thread finds the running flag cleared and ends
LoopExit2 ==
    /\ pc2 = "loop"
    /\ ~scheduler_running
    /\ pc2' = "none"
    /\ current_state' = [current_state EXCEPT !.scheduler_status = "stopped"]
    /\ loop_threads' = loop_threads - 1
    /\ UNCHANGED <<forecastVars, functionVars, start_result, scheduler_running,
                   client_impl, request_bodies, tou_sync, config, inv_mode, now, pc, loc, calls,
                   confirmed_mode, prev>>

\* datetime.now() advances
Tick ==
    /\ now' = (now + 1) % DayLen
    /\ UNCHANGED <<otherVars, scheduler_running, client_impl, request_bodies, tou_sync, config, current_state, inv_mode, pc, loc, calls,
                   confirmed_mode, prev>>

Next ==
    \/ CycleBegin
    \/ BatteryReturn
    \/ ModeReturn
    \/ SetModeReturn
    \/ TouReturn
    \/ CycleEnd
    \/ SleepIncrement
    \/ set_work_mode
    \/ update_config
    \/ complete_setup
    \/ Tick

Spec == Init /\ [][Next]_vars

\* --------------------------------------------------------- pure functions
\* The scheduler as the module leaves it before main runs: no loop thread,
\* current_state as created
SchedulerAtRest ==
    /\ client_impl = "DeyeCloudClient"
    /\ request_bodies = ScheduleConfigs
    /\ tou_sync = NoSync
    /\ config = NoLocals.schedule
    /\ inv_mode = MODE_NORMAL
    /\ current_state =
          [mode |-> "unknown", soc |-> SocNone, battery_power |-> PowerNone,
           force_discharge_active |-> FALSE, last_error |-> NoError,
           scheduler_status |-> "stopped", weather_skip_active |-> FALSE,
           weather_skip_reason |-> NoError]
    /\ confirmed_mode = "unknown"
    /\ scheduler_running = FALSE
    /\ now = 0
    /\ pc = "stopped"
    /\ loc = NoLocals
    /\ calls = <<>>
    /\ prev = Summary(NoLocals)
    /\ loop_threads = 0
    /\ start_result = NotStarted
    /\ pc2 = "none"

\* No function has been applied to fn_args yet
NotApplied == [fn |-> "none", value |-> FALSE]

\* Inputs of the two window tests: datetime.now(), the discharge window of
\* config["schedule"] and config["free_energy"]
WindowInputs ==
    [now : 0..(DayLen - 1),
     force_discharge_start : 0..(DayLen - 1),
     force_discharge_end : 0..(DayLen - 1),
     free_energy : FreeEnergyConfigs]

InitWindow ==
    /\ SchedulerAtRest
    /\ ForecastAtRest
    /\ fn_args \in WindowInputs
    /\ fn_result = NotApplied

\* A call of is_within_discharge_window()
ApplyDischargeWindow ==
    /\ fn_result = NotApplied
    /\ fn_result' =
          [fn |-> "is_within_discharge_window",
           value |-> is_within_discharge_window(fn_args.now,
                         fn_args.force_discharge_start,
                         fn_args.force_discharge_end)]
    /\ UNCHANGED <<fn_args, forecastVars, lifecycleVars, client_impl, request_bodies, tou_sync, config, current_state,
                   scheduler_running, inv_mode, now, pc, loc, calls,
                   confirmed_mode, prev>>

\* A call of is_within_free_energy_window()
ApplyFreeEnergyWindow ==
    /\ fn_result = NotApplied
    /\ fn_result' =
          [fn |-> "is_within_free_energy_window",
           value |-> is_within_free_energy_window(fn_args.free_energy, fn_args.now)]
    /\ UNCHANGED <<fn_args, forecastVars, lifecycleVars, client_impl, request_bodies, tou_sync, config, current_state,
                   scheduler_running, inv_mode, now, pc, loc, calls,
                   confirmed_mode, prev>>

NextWindow ==
    \/ ApplyDischargeWindow
    \/ ApplyFreeEnergyWindow

SpecWindow == InitWindow /\ [][NextWindow]_vars

\* A forecast as WeatherAnalyser.should_skip_discharge reads it: whether
\* "success" is set, and "estimated_solar_kwh" of each day of "daily" (None
\* when the day has no estimate)
NoEstimate == -1
SolarEstimates == (0..MaxKwh) \cup {NoEstimate}
DailyForecasts ==
    UNION {[1..n -> SolarEstimates] : n \in 0..MaxDays}
AnalysedForecasts == [success : BOOLEAN, daily : DailyForecasts]

\* min_solar_kwh: None, or a number of kWh
SolarThresholds ==
    {[none |-> TRUE, kwh |-> 0]} \cup [none : {FALSE}, kwh : (-1)..MaxKwh]

\* should_skip_discharge using a threshold of 1 kWh when none is given
should_skip_discharge_default_threshold(forecast, min_solar_kwh) ==
    LET daily == forecast.daily
        kwh == IF min_solar_kwh.none THEN 1 ELSE min_solar_kwh.kwh
        tomorrow_idx == IF Len(daily) > 1 THEN 1 ELSE 0
        estimated_solar == daily[tomorrow_idx + 1]
    IN  IF ~forecast.success
          THEN [skip |-> FALSE, reason |-> "Weather data unavailable"]
        ELSE IF daily # <<>>
          THEN IF estimated_solar # NoEstimate
                 THEN IF estimated_solar < kwh
                        THEN [skip |-> TRUE, reason |-> "Low solar forecast"]
                        ELSE [skip |-> FALSE, reason |-> "Good solar forecast"]
                 ELSE [skip |-> FALSE, reason |-> "Solar prediction not available"]
        ELSE [skip |-> FALSE, reason |-> "Solar threshold not configured"]

\* should_skip_discharge reading today's estimate whatever the number of days
should_skip_discharge_today(forecast, min_solar_kwh) ==
    LET daily == forecast.daily
        estimated_solar == daily[1]
    IN  IF ~forecast.success
          THEN [skip |-> FALSE, reason |-> "Weather data unavailable"]
        ELSE IF ~min_solar_kwh.none /\ min_solar_kwh.kwh > 0 /\ daily # <<>>
          THEN IF estimated_solar # NoEstimate
                 THEN IF estimated_solar < min_solar_kwh.kwh
                        THEN [skip |-> TRUE, reason |-> "Low solar forecast"]
                        ELSE [skip |-> FALSE, reason |-> "Good solar forecast"]
                 ELSE [skip |-> FALSE, reason |-> "Solar prediction not available"]
        ELSE [skip |-> FALSE, reason |-> "Solar threshold not configured"]

\* should_skip_discharge skipping for an estimate equal to the threshold
should_skip_discharge_at_threshold(forecast, min_solar_kwh) ==
    LET daily == forecast.daily
        tomorrow_idx == IF Len(daily) > 1 THEN 1 ELSE 0
        estimated_solar == daily[tomorrow_idx + 1]
    IN  IF ~forecast.success
          THEN [skip |-> FALSE, reason |-> "Weather data unavailable"]
        ELSE IF ~min_solar_kwh.none /\ min_solar_kwh.kwh > 0 /\ daily # <<>>
          THEN IF estimated_solar # NoEstimate
                 THEN IF estimated_solar <= min_solar_kwh.kwh
                        THEN [skip |-> TRUE, reason |-> "Low solar forecast"]
                        ELSE [skip |-> FALSE, reason |-> "Good solar forecast"]
                 ELSE [skip |-> FALSE, reason |-> "Solar prediction not available"]
        ELSE [skip |-> FALSE, reason |-> "Solar threshold not configured"]

\* WeatherAnalyser.should_skip_discharge: (skip, reason); daily[i] of the
\* code is daily[i + 1] here
should_skip_discharge(forecast, min_solar_kwh) ==
    LET daily == forecast.daily
        tomorrow_idx == IF Len(daily) > 1 THEN 1 ELSE 0
        estimated_solar == daily[tomorrow_idx + 1]
    IN  IF ~forecast.success
          THEN [skip |-> FALSE, reason |-> "Weather data unavailable"]
        ELSE IF ~min_solar_kwh.none /\ min_solar_kwh.kwh > 0 /\ daily # <<>>
          THEN IF estimated_solar # NoEstimate
                 THEN IF estimated_solar < min_solar_kwh.kwh
                        THEN [skip |-> TRUE, reason |-> "Low solar forecast"]
                        ELSE [skip |-> FALSE, reason |-> "Good solar forecast"]
                 ELSE [skip |-> FALSE, reason |-> "Solar prediction not available"]
        ELSE [skip |-> FALSE, reason |-> "Solar threshold not configured"]

\* Inputs of should_skip_discharge
SkipInputs == [forecast : AnalysedForecasts, min_solar_kwh : SolarThresholds]

InitSkip ==
    /\ SchedulerAtRest
    /\ ForecastAtRest
    /\ fn_args \in SkipInputs
    /\ fn_result = NotApplied

\* A call of weather_analyser.should_skip_discharge(forecast, min_solar_kwh)
ApplyShouldSkip ==
    /\ fn_result.fn = "none"
    /\ fn_result' =
          [fn |-> "should_skip_discharge",
           value |-> should_skip_discharge(fn_args.forecast, fn_args.min_solar_kwh)]
    /\ UNCHANGED <<fn_args, forecastVars, lifecycleVars, client_impl, request_bodies, tou_sync, config, current_state,
                   scheduler_running, inv_mode, now, pc, loc, calls,
                   confirmed_mode, prev>>

NextSkip == ApplyShouldSkip

SpecSkip == InitSkip /\ [][NextSkip]_vars

\* -------------------------------------------------------- bad weather day
\* WeatherAnalyser._is_bad_weather_day.  A day dict is the set of its keys
\* with the values of the keys it holds.

MIN_CLOUD_COVER == 70   \* default of min_cloud_cover
BAD_POP == 70           \* precipitation probability that makes a day bad

DayKeys == {"condition", "clouds", "pop"}

\* The day dicts: any of the three keys may be missing (a missing key is
\* written with the value no reader sees, the first of its set)
DayConditions == {"", "Clear", "Clouds", "Rain"}
DayClouds == {0, 49, 50, MIN_CLOUD_COVER - 1, MIN_CLOUD_COVER, 100}
DayPops == {0, BAD_POP - 1, BAD_POP, BAD_POP + 1}
Days ==
    { day \in [keys : SUBSET DayKeys, condition : DayConditions,
               clouds : DayClouds, pop : DayPops] :
        /\ "condition" \notin day.keys => day.condition = ""
        /\ "clouds" \notin day.keys => day.clouds = 0
        /\ "pop" \notin day.keys => day.pop = 0 }

\* The analysers: bad_conditions (the default list, a user's list, an empty
\* list) and min_cloud_cover
Analysers ==
    [bad_conditions : {{"Rain", "Thunderstorm", "Drizzle", "Snow"}, {"Clouds"}, {}},
     min_cloud_cover : {MIN_CLOUD_COVER, 50}]

\* day.get("condition", "")
DayCondition(day) == IF "condition" \in day.keys THEN day.condition ELSE ""

\* day.get("clouds", 0)
DayCloudCover(day) == IF "clouds" \in day.keys THEN day.clouds ELSE 0

\* day.get("pop", 0)
DayPop(day) == IF "pop" \in day.keys THEN day.pop ELSE 0

\* _is_bad_weather_day with a strict comparison of the probability
is_bad_weather_day_strict_pop(analyser, day) ==
    \/ DayCondition(day) \in analyser.bad_conditions
    \/ DayCloudCover(day) >= analyser.min_cloud_cover
    \/ DayPop(day) > BAD_POP

\* WeatherAnalyser._is_bad_weather_day
is_bad_weather_day(analyser, day) ==
    IF DayCondition(day) \in analyser.bad_conditions THEN TRUE
    ELSE IF DayCloudCover(day) >= analyser.min_cloud_cover THEN TRUE
    ELSE IF DayPop(day) >= BAD_POP THEN TRUE
    ELSE FALSE

BadDayInputs == [analyser : Analysers, day : Days]

InitBadDay ==
    /\ SchedulerAtRest
    /\ ForecastAtRest
    /\ fn_args \in BadDayInputs
    /\ fn_result = NotApplied

\* A call of analyser._is_bad_weather_day(day)
ApplyIsBadWeatherDay ==
    /\ fn_result.fn = "none"
    /\ fn_result' =
          [fn |-> "_is_bad_weather_day",
           value |-> is_bad_weather_day(fn_args.analyser, fn_args.day)]
    /\ UNCHANGED <<fn_args, forecastVars, lifecycleVars, client_impl, request_bodies, tou_sync, config, current_state,
                   scheduler_running, inv_mode, now, pc, loc, calls,
                   confirmed_mode, prev>>

NextBadDay == ApplyIsBadWeatherDay

SpecBadDay == InitBadDay /\ [][NextBadDay]_vars

\* ----------------------------------------------------------- weather check
\* config.get("weather", {}), the keys should_skip_discharge_for_weather
\* reads: "enabled" and "min_solar_threshold_kwh", either of which may be
\* missing
WeatherConfigs ==
    [enabled : {Absent, "True", "False"},
     has_threshold : {TRUE},
     min_solar_threshold_kwh : SolarThresholds]
      \cup [enabled : {Absent, "True", "False"},
            has_threshold : {FALSE},
            min_solar_threshold_kwh : {[none |-> FALSE, kwh |-> 0]}]

\* What get_weather_forecast() hands to the weather check: None (or an empty
\* dict), or a forecast dict, whose "success" may be unset
ForecastResults ==
    {[none |-> TRUE, success |-> FALSE, daily |-> <<>>]}
      \cup [none : {FALSE}, success : BOOLEAN, daily : DailyForecasts]

\* weather_config.get("min_solar_threshold_kwh", 0)
MinSolarKwh(weather_config) ==
    IF weather_config.has_threshold
      THEN weather_config.min_solar_threshold_kwh
      ELSE [none |-> FALSE, kwh |-> 0]

\* should_skip_discharge_for_weather skipping when there is no forecast
should_skip_discharge_for_weather_fail_closed(weather_config, ready, forecast) ==
    IF weather_config.enabled # "True"
      THEN [skip |-> FALSE, reason |-> "Weather check disabled"]
    ELSE IF ~ready
      THEN [skip |-> FALSE, reason |-> "Weather not configured"]
    ELSE IF forecast.none
      THEN [skip |-> TRUE, reason |-> "Weather data unavailable"]
    ELSE should_skip_discharge(forecast, MinSolarKwh(weather_config))

\* should_skip_discharge_for_weather: (skip, reason); ready says that
\* weather_client and weather_analyser are set, forecast is what
\* get_weather_forecast() returned
should_skip_discharge_for_weather(weather_config, ready, forecast) ==
    IF weather_config.enabled # "True"
      THEN [skip |-> FALSE, reason |-> "Weather check disabled"]
    ELSE IF ~ready
      THEN [skip |-> FALSE, reason |-> "Weather not configured"]
    ELSE IF forecast.none
      THEN [skip |-> FALSE, reason |-> "Weather data unavailable"]
    ELSE should_skip_discharge(forecast, MinSolarKwh(weather_config))

\* Inputs of the weather check: config["weather"] and the forecast
\* get_weather_forecast() returns when it is called
WeatherCheckInputs == [weather : WeatherConfigs, forecast : ForecastResults]

InitWeatherCheck ==
    /\ SchedulerAtRest
    /\ weather_forecast_cache = EmptyCache
    /\ last_fetch = NoTime
    /\ weather_ready \in BOOLEAN
    /\ fetch = "idle"
    /\ clock = 0
    /\ returned = NotCalled
    /\ fn_args \in WeatherCheckInputs
    /\ fn_result = NotApplied

\* A call of should_skip_discharge_for_weather()
ApplyWeatherCheck ==
    /\ fn_result.fn = "none"
    /\ fn_result' =
          [fn |-> "should_skip_discharge_for_weather",
           value |-> should_skip_discharge_for_weather(fn_args.weather,
                         weather_ready, fn_args.forecast)]
    /\ UNCHANGED <<fn_args, forecastVars, lifecycleVars, client_impl, request_bodies, tou_sync, config, current_state,
                   scheduler_running, inv_mode, now, pc, loc, calls,
                   confirmed_mode, prev>>

NextWeatherCheck == ApplyWeatherCheck

SpecWeatherCheck == InitWeatherCheck /\ [][NextWeatherCheck]_vars

\* ------------------------------------------------------ gateway operations
\* DeyeCloudClient, the operations the scheduler calls, as functions of
\* what the two HTTP exchanges behind them do.

\* _get_token: the cached token is still valid, a new one is obtained, or
\* the token request fails: the connection fails or times out, the status
\* is an error, the answer is a rejection, or it holds no token
TokenOutcomes == {"cached", "refreshed", "network", "http", "rejected", "missing"}

\* The request itself: it is answered, the connection fails or times out,
\* or the status is an error
RequestOutcomes == {"answered", "network", "http"}

\* The operations of the gateway the scheduler calls
GatewayOperations ==
    {"get_work_mode", "get_battery_info", "set_work_mode", "set_tou_settings"}

\* How a call ends: it returns a dict, which may carry a success flag and a
\* message, or it raises
Returns(r) == [kind |-> "return", flagged |-> TRUE, success |-> r.success, msg |-> r.msg]
Raises(text) == [kind |-> "raise", flagged |-> FALSE, success |-> FALSE, msg |-> text]
\* the dict {"soc": ..., "power": ...} of get_battery_info
ReturnsReading(known) ==
    [kind |-> "return", flagged |-> FALSE, success |-> known, msg |-> Absent]

\* _get_token: "" when it returns a token, the text of the exception
\* otherwise
TokenError(token) ==
    CASE token \in {"cached", "refreshed"} -> ""
      [] token = "network" -> "ConnectionError"
      [] token = "http" -> RequestErrorText
      [] token = "rejected" -> "Token request failed"
      [] token = "missing" -> "No access token in response"

\* _make_request: the exceptions of _get_token, of requests.get / post and
\* of raise_for_status leave it; otherwise it returns response.json()
make_request(token, request, response) ==
    IF TokenError(token) # "" THEN Raises(TokenError(token))
    ELSE IF request = "network" THEN Raises("ConnectionError")
    ELSE IF request = "http" THEN Raises(RequestErrorText)
    ELSE Returns(response)

\* get_work_mode, set_work_mode and set_tou_settings return what
\* _make_request returns; get_battery_info catches every exception and
\* returns the reading, None when there is none
GatewayCall(operation, token, request, response) ==
    IF operation = "get_battery_info"
      THEN ReturnsReading(make_request(token, request, response).kind = "return"
                            /\ response.success)
      ELSE make_request(token, request, response)

GatewayInputs ==
    [operation : GatewayOperations, token : TokenOutcomes,
     request : RequestOutcomes, response : {OkResult, OkZeroResult, FailResult, FailNoMsg}]

InitGateway ==
    /\ SchedulerAtRest
    /\ ForecastAtRest
    /\ fn_args \in GatewayInputs
    /\ fn_result = NotApplied

\* A call of one of the operations on app.client
ApplyGatewayCall ==
    /\ fn_result.fn = "none"
    /\ fn_result' =
          [fn |-> fn_args.operation,
           value |-> GatewayCall(fn_args.operation, fn_args.token,
                                 fn_args.request, fn_args.response)]
    /\ UNCHANGED <<fn_args, forecastVars, lifecycleVars, client_impl, request_bodies, tou_sync, config,
                   current_state, scheduler_running, inv_mode, now, pc, loc,
                   calls, confirmed_mode, prev>>

NextGateway == ApplyGatewayCall

SpecGateway == InitGateway /\ [][NextGateway]_vars

\* ------------------------------------------------------------ TOU payload
\* DeyeCloudClient.set_tou_settings as a function of its arguments.  A time
\* "HH:MM" is the minute of the day it names.

Minutes(hh, mm) == 60 * hh + mm

\* Window bounds a schedule may hold: a morning time, the default evening
\* window, and times around midnight
ClockTimes ==
    {Minutes(0, 30), Minutes(5, 30), Minutes(17, 30), Minutes(19, 30),
     Minutes(23, 30)}

\* free_energy_start, free_energy_end, free_energy_soc as
\* get_free_energy_tou_params gives them (three values, or three None) and
\* as a caller may pass them (one of them None); NoTime is None
FreeEnergyArguments ==
    {[start |-> NoTime, end |-> NoTime, soc |-> SocNone],
     [start |-> Minutes(11, 0), end |-> Minutes(14, 0), soc |-> MaxSoc],
     [start |-> Minutes(11, 0), end |-> NoTime, soc |-> MaxSoc]}

\* One entry of payload["timeUseSettingItems"]
SettingItem(time, soc) ==
    [time |-> time, soc |-> soc, enableGridCharge |-> FALSE,
     enableGeneration |-> FALSE]

\* payload["timeUseSettingItems"] as set_tou_settings builds it
timeUseSettingItems(window_start, window_end, min_soc_reserve, window_soc) ==
    << SettingItem(Minutes(0, 0), min_soc_reserve),
       SettingItem(Minutes(6, 0), min_soc_reserve),
       SettingItem(Minutes(12, 0), min_soc_reserve),
       SettingItem(window_start, window_soc),
       SettingItem(window_end, min_soc_reserve),
       SettingItem(Minutes(23, 0), min_soc_reserve) >>

\* The call client.set_tou_settings(**keywords): Python raises TypeError
\* for a keyword that is not a declared parameter, before the body runs
TouCall(args) ==
    IF args.keywords \subseteq TouParameters
      THEN [kind |-> "return",
            items |-> timeUseSettingItems(args.window_start, args.window_end,
                          args.min_soc_reserve, args.window_soc)]
      ELSE [kind |-> "raise", items |-> <<>>]

\* The calls of the tests of set_tou_settings (the five declared parameters)
\* and of app.py (the free-energy keywords added)
TouInputs ==
    { args \in [keywords : {TouParameters, TouKeywords},
                window_start : ClockTimes, window_end : ClockTimes,
                min_soc_reserve : {1}, window_soc : {1, 2},
                free_energy : FreeEnergyArguments] :
        args.window_start # args.window_end }

InitTou ==
    /\ SchedulerAtRest
    /\ ForecastAtRest
    /\ fn_args \in TouInputs
    /\ fn_result = NotApplied

\* A call of client.set_tou_settings
ApplyTouCall ==
    /\ fn_result.fn = "none"
    /\ fn_result' = [fn |-> "set_tou_settings", value |-> TouCall(fn_args)]
    /\ UNCHANGED <<fn_args, forecastVars, lifecycleVars, client_impl, request_bodies, tou_sync, config,
                   current_state, scheduler_running, inv_mode, now, pc, loc,
                   calls, confirmed_mode, prev>>

NextTou == ApplyTouCall

SpecTou == InitTou /\ [][NextTou]_vars

\* ---------------------------------------------------------- weather fetch
\* WeatherClient.get_forecast with _make_request_with_retry, one step per
\* HTTP exchange: a step starts when requests.get returns or raises and
\* runs to the next requests.get (the sleep before it included) or to the
\* return of get_forecast.

MAX_RETRIES == 2     \* max_retries of _make_request_with_retry

\* What one requests.get does: it raises (a timeout, a connection error
\* whose text tells a DNS failure, a refused connection or neither, another
\* request error), or it returns a response with a status and, for a 429,
\* a Retry-After header (missing, a number of seconds, or an HTTP date),
\* for a 400 and a 200 a body (JSON or not; for a 200 a forecast, a JSON
\* object without forecast data, or JSON that _parse_forecast cannot read)
Exchanges ==
    {[kind |-> k, detail |-> ""] :
        k \in {"timeout", "dns", "refused", "connection", "request_error",
               "5xx", "4xx"}}
      \cup [kind : {"429"}, detail : {"no header", "seconds", "date"}]
      \cup [kind : {"400"}, detail : {"json", "not json"}]
      \cup [kind : {"200"}, detail : {"forecast", "no data", "unreadable", "not json"}]

\* int(response.headers.get("Retry-After", 60)): FALSE when int() raises
\* ValueError, which it does for an HTTP date
RetryAfterParses(header) == header \in {"no header", "seconds"}

\* How the pass number attempt (from 0) of the loop of
\* _make_request_with_retry ends on an exchange: with a retry, the return
\* of the response, a WeatherAPIError, or the ValueError of int()
RequestOutcome(exchange, attempt) ==
    LET again == attempt < MAX_RETRIES
    IN  CASE exchange.kind \in {"timeout", "dns", "connection", "5xx"} ->
               IF again THEN "retry" ELSE "WeatherAPIError"
          [] exchange.kind = "429" ->
               IF again
                 THEN IF RetryAfterParses(exchange.detail)
                        THEN "retry" ELSE "ValueError"
                 ELSE "WeatherAPIError"
          [] exchange.kind \in {"refused", "request_error"} -> "WeatherAPIError"
          [] exchange.kind \in {"4xx", "400", "200"} -> "response"

\* What get_forecast returns
ForecastSuccess(days) ==
    [kind |-> "return", success |-> TRUE, daily |-> days, is_temporary |-> Absent]
ForecastFailure(is_temporary) ==
    [kind |-> "return", success |-> FALSE, daily |-> "empty",
     is_temporary |-> IF is_temporary THEN "True" ELSE "False"]
\* the request is to be made again
Retry == [kind |-> "retry", success |-> FALSE, daily |-> "empty", is_temporary |-> Absent]

\* What the exchange number attempt (from 0) leads to: a retry, or the
\* return of get_forecast.  WeatherAPIError is turned into a failure with
\* the error's is_temporary, any other exception into a failure that is not
\* temporary.
AfterExchange(exchange, attempt) ==
    LET again == attempt < MAX_RETRIES
    IN  CASE exchange.kind \in {"timeout", "dns", "connection", "5xx"} ->
               IF again THEN Retry ELSE ForecastFailure(TRUE)
          [] exchange.kind = "429" ->
               IF again
                 THEN IF RetryAfterParses(exchange.detail)
                        THEN Retry ELSE ForecastFailure(FALSE)
                 ELSE ForecastFailure(TRUE)
          [] exchange.kind = "refused" -> ForecastFailure(TRUE)
          [] exchange.kind \in {"request_error", "4xx", "400"} -> ForecastFailure(FALSE)
          [] exchange.kind = "200" ->
               IF exchange.detail = "forecast" THEN ForecastSuccess("days")
               ELSE IF exchange.detail = "no data" THEN ForecastSuccess("empty")
               ELSE ForecastFailure(FALSE)

\* The exchanges the provider is going to answer with, and whether the
\* client's own cache holds a forecast not older than _cache_duration
FetchInputs ==
    [exchanges : [1..(MAX_RETRIES + 1) -> Exchanges], cache_valid : BOOLEAN]

InitWeatherFetch ==
    /\ SchedulerAtRest
    /\ ForecastAtRest
    /\ fn_args \in FetchInputs
    /\ fn_result = NotApplied

\* weather_client.get_forecast() is called: it returns the client's cached
\* forecast, or makes the first request
GetForecastCall ==
    /\ fn_result.fn = "none"
    /\ fn_result' =
          [fn |-> "get_forecast", attempt |-> 0,
           last |-> [kind |-> "none", detail |-> ""],
           request |-> IF fn_args.cache_valid THEN "none" ELSE "retry",
           value |-> IF fn_args.cache_valid THEN ForecastSuccess("cached")
                                            ELSE Retry]
    /\ UNCHANGED <<fn_args, forecastVars, lifecycleVars, client_impl, request_bodies, tou_sync, config,
                   current_state, scheduler_running, inv_mode, now, pc, loc,
                   calls, confirmed_mode, prev>>

\* requests.get has returned or raised
ExchangeReturn ==
    /\ fn_result.fn = "get_forecast"
    /\ fn_result.value.kind = "retry"
    /\ fn_result.attempt <= MAX_RETRIES
    /\ LET exchange == fn_args.exchanges[fn_result.attempt + 1]
       IN  fn_result' =
             [fn_result EXCEPT
                !.attempt = @ + 1,
                !.last = exchange,
                !.request = RequestOutcome(exchange, fn_result.attempt),
                !.value = AfterExchange(exchange, fn_result.attempt)]
    /\ UNCHANGED <<fn_args, forecastVars, lifecycleVars, client_impl, request_bodies, tou_sync, config,
                   current_state, scheduler_running, inv_mode, now, pc, loc,
                   calls, confirmed_mode, prev>>

NextWeatherFetch ==
    \/ GetForecastCall
    \/ ExchangeReturn

SpecWeatherFetch == InitWeatherFetch /\ [][NextWeatherFetch]_vars

\* --------------------------------------------------------- solar estimator
\* WeatherClient.estimate_solar_output_hourly, in exact arithmetic.  The
\* factors are kept as integers: hour weights in 1/100, cloud and condition
\* factors in 1/400, the precipitation factor in 1/1000, the base production
\* in 1/10 kWh per kW; the result is in tenths of a kWh.

\* hour_weights, in hundredths; 0 for an hour that has no weight
HourWeight(hour) ==
    CASE hour \in {6, 18} -> 2
      [] hour \in {7, 17} -> 5
      [] hour \in {8, 16} -> 8
      [] hour \in {9, 15} -> 11
      [] hour \in {10, 14} -> 13
      [] hour \in {11, 12, 13} -> 14
      [] OTHER -> 0

\* The conditions that have an entry in condition_factors
AdverseConditions == {"Rain", "Drizzle", "Thunderstorm", "Snow", "Fog"}

\* condition_factors, in 1/400
ConditionFactor(condition) ==
    CASE condition = "Rain" -> 100
      [] condition = "Drizzle" -> 140
      [] condition = "Thunderstorm" -> 40
      [] condition = "Snow" -> 60
      [] condition = "Fog" -> 160

\* base_kwh_per_kw for a latitude in whole degrees, in tenths; a latitude
\* of 0 is taken for 35
BaseKwhPerKw(latitude) ==
    LET magnitude == IF latitude < 0 THEN -latitude ELSE latitude
        lat == IF latitude # 0 THEN magnitude ELSE 35
    IN  IF lat < 15 THEN 58
        ELSE IF lat < 25 THEN 53
        ELSE IF lat < 35 THEN 48
        ELSE IF lat < 45 THEN 43
        ELSE 38

\* A sample counts when its hour is one of 6..18 (and has a weight)
IsDaylight(entry) ==
    ~(entry.hour < 6 \/ entry.hour > 18) /\ HourWeight(entry.hour) # 0

\* cloud_factor = 1.0 - (clouds / 100 * 0.75), in 1/400
CloudFactor(clouds) == 400 - 3 * clouds

Min(a, b) == IF a < b THEN a ELSE b

\* weather_factor before the precipitation factor is applied, in 1/400
WeatherFactor(entry) ==
    IF entry.condition \in AdverseConditions
      THEN Min(CloudFactor(entry.clouds), ConditionFactor(entry.condition))
      ELSE CloudFactor(entry.clouds)

\* pop_factor = 1.0 - (pop / 100 * 0.3), in 1/1000
PopFactor(pop) == 1000 - 3 * pop

\* period_kwh of one sample, in 1/(4 * 10^8) kWh
PeriodKwh(panel_capacity_kw, latitude, entry) ==
    panel_capacity_kw * BaseKwhPerKw(latitude) * HourWeight(entry.hour)
      * WeatherFactor(entry) * PopFactor(entry.pop)

RECURSIVE TotalKwh(_, _, _)
\* total_kwh over the daylight samples of hourly_data, in 1/(4 * 10^8) kWh
TotalKwh(panel_capacity_kw, latitude, hourly_data) ==
    IF hourly_data = <<>> THEN 0
    ELSE (IF IsDaylight(Head(hourly_data))
            THEN PeriodKwh(panel_capacity_kw, latitude, Head(hourly_data))
            ELSE 0)
         + TotalKwh(panel_capacity_kw, latitude, Tail(hourly_data))

\* hours_with_data
HoursWithData(hourly_data) ==
    {hourly_data[i].hour : i \in {j \in DOMAIN hourly_data : IsDaylight(hourly_data[j])}}

\* round(total_kwh, 1), in tenths of a kWh (a tie goes to the even tenth)
TenthUnit == 40000000
RoundTenths(total) ==
    LET q == total \div TenthUnit
        r == total % TenthUnit
    IN  IF 2 * r > TenthUnit THEN q + 1
        ELSE IF 2 * r = TenthUnit THEN q + (q % 2)
        ELSE q

\* What the estimator returns: None, or a number of tenths of a kWh
NoOutput == [none |-> TRUE, tenths |-> 0]

\* self._cache as the estimator reads it: whether "hourly_data" is cached,
\* whether it has an entry for date_str, and the samples of that entry
HourlySamples ==
    [hour : {5, 6, 12, 18, 19}, clouds : {0, 100}, condition : {"Clear", "Rain"},
     pop : {0, 100}]
SampleLists == UNION {[1..n -> HourlySamples] : n \in 0..MaxSamples}
HourlyCaches ==
    {[cached |-> FALSE, dated |-> FALSE, hourly_data |-> <<>>],
     [cached |-> TRUE, dated |-> FALSE, hourly_data |-> <<>>]}
      \cup [cached : {TRUE}, dated : {TRUE}, hourly_data : SampleLists]

\* estimate_solar_output_hourly returning 0 when no daylight sample counts
estimate_solar_output_hourly_zero(cache, latitude, panel_capacity_kw) ==
    LET total_kwh == TotalKwh(panel_capacity_kw, latitude, cache.hourly_data)
    IN  IF ~cache.cached THEN NoOutput
        ELSE IF cache.hourly_data = <<>> THEN NoOutput
        ELSE [none |-> FALSE, tenths |-> RoundTenths(total_kwh)]

\* estimate_solar_output_hourly(panel_capacity_kw, date_str) on a client of
\* the given latitude
estimate_solar_output_hourly(cache, latitude, panel_capacity_kw) ==
    LET total_kwh == TotalKwh(panel_capacity_kw, latitude, cache.hourly_data)
    IN  IF ~cache.cached THEN NoOutput
        ELSE IF cache.hourly_data = <<>> THEN NoOutput
        ELSE IF Cardinality(HoursWithData(cache.hourly_data)) < 1 THEN NoOutput
        ELSE IF total_kwh > 0
               THEN [none |-> FALSE, tenths |-> RoundTenths(total_kwh)]
               ELSE NoOutput

\* Inputs of the estimator
EstimatorInputs ==
    [cache : HourlyCaches, latitude : {10, -34}, panel_capacity_kw : {0, 2}]

InitEstimator ==
    /\ SchedulerAtRest
    /\ ForecastAtRest
    /\ fn_args \in EstimatorInputs
    /\ fn_result = NotApplied

\* A call of weather_client.estimate_solar_output_hourly(capacity, date)
ApplyEstimator ==
    /\ fn_result.fn = "none"
    /\ fn_result' =
          [fn |-> "estimate_solar_output_hourly",
           value |-> estimate_solar_output_hourly(fn_args.cache,
                         fn_args.latitude, fn_args.panel_capacity_kw)]
    /\ UNCHANGED <<fn_args, forecastVars, lifecycleVars, client_impl, request_bodies, tou_sync, config,
                   current_state, scheduler_running, inv_mode, now, pc, loc,
                   calls, confirmed_mode, prev>>

NextEstimator == ApplyEstimator

SpecEstimator == InitEstimator /\ [][NextEstimator]_vars

\* The estimator on the days that have one sample for each hour from 6 on,
\* n hours long (n = 13 is the full day 6..18), the weather being the same
\* in every sample
HourlyWeather ==
    [clouds : {0, 100}, condition : {"Clear", "Rain"}, pop : {0, 100}]
DayOfSamples(n, weather) ==
    [i \in 1..n |-> [hour |-> 5 + i, clouds |-> weather.clouds,
                     condition |-> weather.condition, pop |-> weather.pop]]
HourlyDays == {DayOfSamples(n, weather) : n \in 1..13, weather \in HourlyWeather}
FullDayInputs ==
    [cache : [cached : {TRUE}, dated : {TRUE}, hourly_data : HourlyDays],
     latitude : {40, -50}, panel_capacity_kw : {1}]

InitFullDay ==
    /\ SchedulerAtRest
    /\ ForecastAtRest
    /\ fn_args \in FullDayInputs
    /\ fn_result = NotApplied

SpecFullDay == InitFullDay /\ [][NextEstimator]_vars

\* ---------------------------------------------------------- forecast cache
CACHE_TTL == 300     \* seconds a cached forecast is served without a fetch
Forecasts == 1..MaxForecasts

\* cache_age of get_weather_forecast: None when nothing was cached
CacheIsStale(cache, time) ==
    cache.last_update = NoTime \/ time - cache.last_update > CACHE_TTL

\* Outcomes of the refresh: an analysed forecast that is a success, one that
\* is not, or an exception of the provider call or of the analysis
RefreshOutcomes ==
    {[kind |-> "ok", forecast |-> f] : f \in Forecasts}
      \cup {[kind |-> "unsuccessful", forecast |-> NoForecast],
            [kind |-> "raise", forecast |-> NoForecast]}

\* CacheAfterRefresh stamping the cache on a failed refresh too
CacheAfterRefresh_stamped(outcome, cache, time) ==
    IF outcome.kind = "ok"
      THEN [forecast |-> outcome.forecast, last_update |-> time]
      ELSE [cache EXCEPT !.last_update = time]

\* weather_forecast_cache once the refresh is over
CacheAfterRefresh(outcome, cache, time) ==
    IF outcome.kind = "ok"
      THEN [forecast |-> outcome.forecast, last_update |-> time]
      ELSE cache

\* ReturnedAfterRefresh giving None after a failed refresh
ReturnedAfterRefresh_none(outcome, cache) ==
    IF outcome.kind = "ok" THEN outcome.forecast ELSE NoForecast

\* What get_weather_forecast returns once the refresh is over
ReturnedAfterRefresh(outcome, cache) ==
    IF outcome.kind = "ok" THEN outcome.forecast ELSE cache.forecast

\* get_weather_forecast is called (by the scheduler's weather check or by
\* GET /api/weather): it returns None without a weather client, the cached
\* forecast while the cache is fresh, and calls the provider otherwise
ForecastCall ==
    /\ fetch = "idle"
    /\ IF ~weather_ready
         THEN /\ returned' = [how |-> "not ready", forecast |-> NoForecast]
              /\ fetch' = fetch
         ELSE IF CacheIsStale(weather_forecast_cache, clock)
         THEN /\ fetch' = "provider"
              /\ returned' = returned
         ELSE /\ returned' = [how |-> "cached",
                              forecast |-> weather_forecast_cache.forecast]
              /\ fetch' = fetch
    /\ last_fetch' = IF weather_ready /\ CacheIsStale(weather_forecast_cache, clock)
                       THEN clock ELSE last_fetch
    /\ UNCHANGED <<weather_forecast_cache, weather_ready, clock, functionVars,
                   lifecycleVars,
                   client_impl, request_bodies, tou_sync, config, current_state, scheduler_running,
                   inv_mode, now, pc, loc, calls, confirmed_mode, prev>>

\* The provider call and the analysis are over: the cache is replaced on a
\* success and the function returns
ForecastReturn ==
    /\ fetch = "provider"
    /\ fetch' = "idle"
    /\ \E outcome \in RefreshOutcomes :
         /\ weather_forecast_cache' =
               CacheAfterRefresh(outcome, weather_forecast_cache, clock)
         /\ returned' =
               [how |-> IF outcome.kind = "ok" THEN "refreshed" ELSE "failed",
                forecast |-> ReturnedAfterRefresh(outcome, weather_forecast_cache)]
    /\ UNCHANGED <<weather_ready, clock, last_fetch, functionVars, lifecycleVars,
                   client_impl, request_bodies, tou_sync, config, current_state, scheduler_running,
                   inv_mode, now, pc, loc, calls, confirmed_mode, prev>>

\* POST /api/weather/config: drops the weather clients, clears the cache and
\* runs init_weather_client, which sets the clients when the feature is
\* enabled with a location
update_weather_config ==
    /\ weather_forecast_cache' = EmptyCache
    /\ weather_ready' \in BOOLEAN
    /\ last_fetch' = NoTime
    /\ UNCHANGED <<fetch, clock, returned, functionVars, lifecycleVars,
                   client_impl, request_bodies, tou_sync, config, current_state, scheduler_running,
                   inv_mode, now, pc, loc, calls, confirmed_mode, prev>>

\* Time passes
Elapse ==
    /\ clock + ClockStep <= MaxClock
    /\ clock' = clock + ClockStep
    /\ UNCHANGED <<weather_forecast_cache, weather_ready, fetch, returned,
                   last_fetch, functionVars, lifecycleVars, client_impl, request_bodies, tou_sync, config, current_state,
                   scheduler_running, inv_mode, now, pc, loc, calls,
                   confirmed_mode, prev>>

InitForecast ==
    /\ SchedulerAtRest
    /\ FunctionsAtRest
    /\ weather_forecast_cache = EmptyCache
    /\ weather_ready \in BOOLEAN
    /\ fetch = "idle"
    /\ clock = 0
    /\ returned = NotCalled
    /\ last_fetch = NoTime

NextForecast ==
    \/ ForecastCall
    \/ ForecastReturn
    \/ update_weather_config
    \/ complete_setup
    \/ Elapse

SpecForecast == InitForecast /\ [][NextForecast]_vars

\* ------------------------------------------------------------- properties
\* Positions of the scheduler at which the cycle's target has been computed,
\* and those at which the work mode has been read as well
Computed == {"mode", "setmode", "settle", "done"}
AfterRead == {"setmode", "settle", "done"}

Issued(op) == \E i \in DOMAIN calls : calls[i].op = op
IssuedMode(mode) ==
    \E i \in DOMAIN calls : calls[i].op = "set_work_mode" /\ calls[i].arg = mode

C2_ReactivationMargin ==
    ( /\ pc \in AfterRead
      /\ loc.target = MODE_FORCE_DISCHARGE
      /\ loc.schedule.reactivation_margin > 0
      /\ loc.soc # SocNone )
    => loc.soc > loc.schedule.force_discharge_cutoff_soc
                 + loc.schedule.reactivation_margin

\* C3: idempotence.  In a cycle whose work-mode read succeeds and whose
\* target agrees with the mode read (FORCE_DISCHARGE read and target true,
\* another mode read and target false), the scheduler issues neither
\* set_work_mode nor set_tou_settings.
C3_Idempotent ==
    ( /\ pc \in AfterRead
      /\ loc.read = "ok"
      /\ loc.should_force_discharge = (loc.actual_mode = MODE_FORCE_DISCHARGE) )
    => /\ pc = "done"
       /\ ~Issued("set_work_mode")
       /\ ~Issued("set_tou_settings")

C3_Witness ==
    /\ pc = "done"
    /\ loc.read = "ok"
    /\ loc.should_force_discharge
    /\ loc.actual_mode = MODE_FORCE_DISCHARGE
    /\ ~Issued("set_work_mode")

FullTou(c, window_soc, reserve_soc) ==
    /\ c.op = "set_tou_settings"
    /\ c.payload # <<>>
    /\ \A k \in DOMAIN c.payload :
         c.payload[k].soc = IF c.payload[k].time = "window_start"
                              THEN window_soc ELSE reserve_soc

\* The cycle's calls end with set_work_mode(mode), the settle delay and one
\* full set_tou_settings, in that order, and hold no other command
TransitionCompleted(mode, window_soc, reserve_soc) ==
    /\ Len(calls) = 5
    /\ calls[3] = Call("set_work_mode", mode)
    /\ calls[4] = Call("sleep", "5")
    /\ FullTou(calls[5], window_soc, reserve_soc)

\* C5: activation.  A cycle that finds discharge INACTIVE with
\* should_force_discharge true and whose set_mode(FORCE_DISCHARGE) succeeds
\* ends having issued, after the settle delay, one full set_tou whose window
\* segment has SoC cutoff_soc and whose other segments have SoC reserve_soc.
C5_ActivationSendsTou ==
    ( /\ pc = "done"
      /\ loc.should_force_discharge
      /\ ~loc.was_active
      /\ loc.mode_result.kind = "ok" )
    => TransitionCompleted(MODE_FORCE_DISCHARGE,
                           loc.schedule.force_discharge_cutoff_soc,
                           loc.schedule.min_soc_reserve)

\* C6: deactivation.  A cycle that finds discharge ACTIVE with
\* should_force_discharge false and whose set_mode(NORMAL) succeeds ends
\* having issued, after the settle delay, one full set_tou all of whose
\* segments have SoC reserve_soc.
C6_DeactivationSendsTou ==
    ( /\ pc = "done"
      /\ ~loc.should_force_discharge
      /\ loc.was_active
      /\ loc.mode_result.kind = "ok" )
    => TransitionCompleted(MODE_NORMAL,
                           loc.schedule.min_soc_reserve,
                           loc.schedule.min_soc_reserve)

\* C7: weather skip.  In a cycle whose weather check reports skip,
\* should_force_discharge is false whatever the SoC and the window, the skip
\* flag and its reason are published in current_state, and with discharge
\* INACTIVE the cycle issues no set_work_mode.
C7_WeatherSkip ==
    (pc \in Computed /\ loc.weather_skip)
    => /\ ~loc.should_force_discharge
       /\ current_state.weather_skip_active
       /\ current_state.weather_skip_reason = loc.weather_reason
       /\ (pc \in AfterRead /\ ~loc.was_active) => ~Issued("set_work_mode")

C7_Witness ==
    /\ pc = "done"
    /\ loc.weather_skip
    /\ loc.schedule.enabled
    /\ loc.in_window
    /\ loc.soc > loc.schedule.force_discharge_cutoff_soc
    /\ ~loc.was_active
    /\ current_state.weather_skip_reason = "Low solar"

\* C8: when set_work_mode is rejected (a failure response, or an exception)
\* in an activation or a deactivation, the step that handles the rejection
\* stores the gateway's message in last_error, ends the cycle without a
\* set_tou_settings call and leaves force_discharge_active as it was.
C8_RejectedSetMode ==
    [][ ( /\ pc = "setmode"
          /\ pc' # "setmode"
          /\ loc'.mode_result.kind # "ok" )
        => /\ loc'.mode_result.msg # Absent
                => current_state'.last_error = loc'.mode_result.msg
           /\ current_state'.last_error # NoError
           /\ pc' = "done"
           /\ calls' = calls
           /\ ~Issued("set_tou_settings")
           /\ current_state'.force_discharge_active
                = current_state.force_discharge_active ]_vars

C8_Witness ==
    /\ pc = "done"
    /\ loc.target = MODE_FORCE_DISCHARGE
    /\ loc.mode_result = FailResult
    /\ current_state.last_error = "Failed"
    /\ ~current_state.force_discharge_active
    /\ ~Issued("set_tou_settings")

SameInputs ==
    /\ loc.soc = prev.soc
    /\ loc.in_window = prev.in_window
    /\ loc.weather_skip = prev.weather_skip
    /\ loc.schedule = prev.schedule

C10_FailedCommandRetried ==
    (pc = "done" /\ SameInputs /\ loc.read = "ok" /\ prev.read = "ok")
    => /\ (prev.failed = "mode" /\ loc.actual_mode = prev.actual_mode)
            => IssuedMode(prev.target)
       /\ (prev.failed = "tou" /\ loc.actual_mode = prev.target)
            => Issued("set_tou_settings")

C12_BatteryFailureKeepsSoc ==
    [][ (pc = "battery" /\ pc' = "mode" /\ loc'.battery = "fail")
        => /\ current_state'.soc = current_state.soc
           /\ current_state'.battery_power = current_state.battery_power
           /\ current_state'.last_error # NoError
           /\ loc'.should_force_discharge
                = should_force_discharge(loc'.schedule.enabled, loc'.in_window,
                      current_state.soc,
                      loc'.schedule.force_discharge_cutoff_soc,
                      loc'.weather_skip) ]_vars

\* C13: when the work-mode read of a cycle fails (it raises, or returns a
\* result that is not a success or has no mode), the step that handles the
\* failure leaves mode, force_discharge_active and last_error as they were
\* and goes on to the activate / deactivate decision, taken on the previous
\* force_discharge_active: it calls set_work_mode with the target that flag
\* gives, or ends the cycle when there is none.
C13_ModeReadFailure ==
    [][ (pc = "mode" /\ pc' # "mode" /\ loc'.read \in {"fail", "raise"})
        => /\ current_state'.mode = current_state.mode
           /\ current_state'.force_discharge_active
                = current_state.force_discharge_active
           /\ current_state'.last_error = current_state.last_error
           /\ loc'.target = TargetMode(loc.should_force_discharge,
                                       current_state.force_discharge_active)
           /\ IF loc'.target = ""
                THEN pc' = "done" /\ calls' = calls
                ELSE /\ pc' = "setmode"
                     /\ calls' = Append(calls, Call("set_work_mode", loc'.target)) ]_vars

C13_Witness ==
    /\ pc = "setmode"
    /\ loc.read = "raise"
    /\ current_state.force_discharge_active
    /\ ~loc.should_force_discharge
    /\ IssuedMode(MODE_NORMAL)

\* C14: a null SoC reading satisfies the SoC condition.  In a cycle with
\* force-discharge enabled, the time inside the window, no weather skip and
\* a SoC reading of None, should_force_discharge is true, and with discharge
\* INACTIVE the cycle issues set_work_mode(FORCE_DISCHARGE).
C14_UnknownSocDischarges ==
    ( /\ pc \in Computed
      /\ loc.soc = SocNone
      /\ loc.schedule.enabled
      /\ loc.in_window
      /\ ~loc.weather_skip )
    => /\ loc.should_force_discharge
       /\ (pc \in AfterRead /\ ~loc.was_active)
            => IssuedMode(MODE_FORCE_DISCHARGE)

C14_Witness ==
    /\ pc = "setmode"
    /\ loc.battery = "ok"
    /\ loc.soc = SocNone
    /\ ~loc.was_active
    /\ IssuedMode(MODE_FORCE_DISCHARGE)

\* C15: a cycle whose schedule has enabled = false never issues
\* set_work_mode(FORCE_DISCHARGE), whatever the SoC, the window membership
\* and the weather result; and when it reads the inverter as FORCE_DISCHARGE
\* it issues set_work_mode(NORMAL).
C15_DisabledNeverDischarges ==
    (pc \in Computed /\ ~loc.schedule.enabled)
    => /\ ~loc.should_force_discharge
       /\ ~IssuedMode(MODE_FORCE_DISCHARGE)
       /\ ( /\ pc \in AfterRead
            /\ loc.read = "ok"
            /\ loc.actual_mode = MODE_FORCE_DISCHARGE )
            => IssuedMode(MODE_NORMAL)

C15_Witness ==
    /\ pc = "setmode"
    /\ ~loc.schedule.enabled
    /\ loc.in_window
    /\ loc.soc > loc.schedule.force_discharge_cutoff_soc
    /\ ~loc.weather_skip
    /\ loc.actual_mode = MODE_FORCE_DISCHARGE
    /\ IssuedMode(MODE_NORMAL)

\* The window test that was applied, with the bounds it used and its result
AppliedWindow ==
    IF fn_result.fn = "is_within_discharge_window"
      THEN [applied |-> TRUE, start |-> fn_args.force_discharge_start,
            end |-> fn_args.force_discharge_end, value |-> fn_result.value]
    ELSE IF /\ fn_result.fn = "is_within_free_energy_window"
            /\ FreeEnergyEnabled(fn_args.free_energy)
      THEN [applied |-> TRUE, start |-> fn_args.free_energy.start_time,
            end |-> fn_args.free_energy.end_time, value |-> fn_result.value]
    ELSE [applied |-> FALSE, start |-> 0, end |-> 0, value |-> FALSE]

\* C16: overnight windows.  For a window with end <= start, both window
\* tests (the free-energy one when the feature is enabled) return true for
\* a time equal to start, for a time equal to end, for every time after
\* start and for every time before end, and false for every time strictly
\* between end and start.
C16_OvernightWindow ==
    (AppliedWindow.applied /\ AppliedWindow.end <= AppliedWindow.start)
    => LET w == AppliedWindow
           t == fn_args.now
       IN  /\ t = w.start => w.value
           /\ t = w.end => w.value
           /\ t > w.start => w.value
           /\ t < w.end => w.value
           /\ (w.end < t /\ t < w.start) => ~w.value

C16_Witness ==
    /\ fn_result.fn = "is_within_discharge_window"
    /\ fn_args.force_discharge_end < fn_args.now
    /\ fn_args.now < fn_args.force_discharge_start
    /\ ~fn_result.value

\* C17: same-day windows.  For a window with start < end, both window tests
\* return true exactly for the times t with start <= t <= end; and the
\* free-energy test returns false for every time when the feature is
\* disabled or its configuration is missing.
C17_SameDayWindow ==
    /\ (AppliedWindow.applied /\ AppliedWindow.start < AppliedWindow.end)
         => AppliedWindow.value
              = (AppliedWindow.start <= fn_args.now /\ fn_args.now <= AppliedWindow.end)
    /\ ( /\ fn_result.fn = "is_within_free_energy_window"
         /\ ( \/ ~fn_args.free_energy.present
              \/ fn_args.free_energy.enabled \in {Absent, "False"} ) )
         => ~fn_result.value

C17_Witness ==
    /\ fn_result.fn = "is_within_free_energy_window"
    /\ fn_args.free_energy.present
    /\ fn_args.free_energy.enabled = "True"
    /\ fn_args.free_energy.start_time < fn_args.free_energy.end_time
    /\ fn_args.now = fn_args.free_energy.end_time
    /\ fn_result.value

\* C18: when the refresh attempted by get_weather_forecast fails (the
\* provider or the analysis raises, or the analysed forecast is not a
\* success), the call returns the forecast the cache holds, unmodified, when
\* the cache is not empty, and None when it is empty.
C18_FailedRefreshServesCache ==
    [][ (fetch = "provider" /\ fetch' = "idle" /\ returned'.how = "failed")
        => /\ returned'.forecast = weather_forecast_cache.forecast
           /\ weather_forecast_cache.forecast = NoForecast
                => returned'.forecast = NoForecast
           /\ weather_forecast_cache'.forecast = weather_forecast_cache.forecast ]_vars

C18_Witness ==
    /\ returned.how = "failed"
    /\ returned.forecast \in Forecasts
    /\ weather_forecast_cache.forecast = returned.forecast

\* C19: forecast-cache invariant.  A failed fetch changes neither the
\* cached forecast nor last_update; the cached forecast changes only in a
\* successful refresh, which stores the new forecast, or in a configuration
\* change (POST /api/weather/config, POST /api/setup/complete), which
\* empties the cache.
C19_CacheChangesOnlyByRefreshOrConfig ==
    [][ /\ (fetch = "provider" /\ fetch' = "idle" /\ returned'.how = "failed")
             => weather_forecast_cache' = weather_forecast_cache
        /\ weather_forecast_cache' # weather_forecast_cache
             => \/ /\ ForecastReturn
                   /\ returned'.how = "refreshed"
                   /\ weather_forecast_cache'.forecast = returned'.forecast
                   /\ weather_forecast_cache'.forecast \in Forecasts
                \/ /\ update_weather_config \/ complete_setup
                   /\ weather_forecast_cache' = EmptyCache ]_vars

C19_Witness ==
    /\ returned.how = "failed"
    /\ weather_forecast_cache.forecast \in Forecasts
    /\ weather_forecast_cache.last_update # NoTime
    /\ clock - weather_forecast_cache.last_update > CACHE_TTL
    /\ fetch = "idle"

\* C20: should_skip_discharge returns skip = false whenever min_solar_kwh
\* is None, zero or negative, for every forecast, those whose solar
\* estimates are all below every positive threshold included.
C20_NoThresholdNeverSkips ==
    ( /\ fn_result.fn = "should_skip_discharge"
      /\ (fn_args.min_solar_kwh.none \/ fn_args.min_solar_kwh.kwh <= 0) )
    => ~fn_result.value.skip

C20_Witness ==
    /\ fn_result.fn = "should_skip_discharge"
    /\ fn_args.min_solar_kwh.none
    /\ fn_args.forecast.success
    /\ Len(fn_args.forecast.daily) > 1
    /\ \A i \in DOMAIN fn_args.forecast.daily : fn_args.forecast.daily[i] = 0
    /\ ~fn_result.value.skip
    /\ fn_result.value.reason = "Solar threshold not configured"

\* The day the decision is about: the second day of a forecast of two days
\* or more, the only day of a forecast of one, none of an empty forecast
SelectedDay(daily) ==
    IF Len(daily) > 1 THEN 2 ELSE IF Len(daily) = 1 THEN 1 ELSE 0

\* The estimate of that day, None when there is no day
SelectedEstimate(daily) ==
    IF SelectedDay(daily) = 0 THEN NoEstimate ELSE daily[SelectedDay(daily)]

\* C22: with a positive threshold, the result of should_skip_discharge
\* depends on one day of the forecast only, tomorrow (index 1) when the
\* forecast has two days or more and the day at index 0 otherwise: every
\* forecast with the same success mark and the same estimate for that day
\* gets the same result, whatever its other days and their number.
C22_OneDayDecides ==
    ( /\ fn_result.fn = "should_skip_discharge"
      /\ ~fn_args.min_solar_kwh.none
      /\ fn_args.min_solar_kwh.kwh > 0 )
    => \A other \in AnalysedForecasts :
          ( /\ other.success = fn_args.forecast.success
            /\ other.daily # <<>>
            /\ fn_args.forecast.daily # <<>>
            /\ SelectedEstimate(other.daily)
                 = SelectedEstimate(fn_args.forecast.daily) )
          => should_skip_discharge(other, fn_args.min_solar_kwh) = fn_result.value

C22_Witness ==
    /\ fn_result.fn = "should_skip_discharge"
    /\ fn_args.min_solar_kwh = [none |-> FALSE, kwh |-> 1]
    /\ fn_args.forecast.success
    /\ Len(fn_args.forecast.daily) = MaxDays
    /\ fn_args.forecast.daily[1] = 0
    /\ fn_args.forecast.daily[2] = MaxKwh
    /\ fn_args.forecast.daily[3] = 0
    /\ ~fn_result.value.skip

\* C23: with a positive threshold and a successful forecast,
\* should_skip_discharge returns skip = true exactly when the selected day
\* has a solar estimate and the estimate is strictly below the threshold;
\* an estimate equal to the threshold, one above it and a missing one give
\* skip = false.
C23_SkipIffBelowThreshold ==
    ( /\ fn_result.fn = "should_skip_discharge"
      /\ ~fn_args.min_solar_kwh.none
      /\ fn_args.min_solar_kwh.kwh > 0
      /\ fn_args.forecast.success )
    => fn_result.value.skip
         = ( /\ SelectedEstimate(fn_args.forecast.daily) # NoEstimate
             /\ SelectedEstimate(fn_args.forecast.daily) < fn_args.min_solar_kwh.kwh )

C23_Witness ==
    /\ fn_result.fn = "should_skip_discharge"
    /\ fn_args.forecast.success
    /\ fn_args.min_solar_kwh = [none |-> FALSE, kwh |-> 1]
    /\ Len(fn_args.forecast.daily) > 1
    /\ fn_args.forecast.daily[2] = 1
    /\ ~fn_result.value.skip
    /\ fn_result.value.reason = "Good solar forecast"

\* C21: fail open.  should_skip_discharge_for_weather returns skip = false
\* whenever the weather feature is not enabled, the weather client or the
\* analyser is not set, get_weather_forecast returns None, or the forecast
\* it returns is not marked a success.
C21_FailOpen ==
    ( /\ fn_result.fn = "should_skip_discharge_for_weather"
      /\ ( \/ fn_args.weather.enabled # "True"
           \/ ~weather_ready
           \/ fn_args.forecast.none
           \/ ~fn_args.forecast.success ) )
    => ~fn_result.value.skip

C21_Witness ==
    /\ fn_result.fn = "should_skip_discharge_for_weather"
    /\ fn_args.weather.enabled = "True"
    /\ weather_ready
    /\ fn_args.forecast.none
    /\ fn_args.weather.has_threshold
    /\ fn_args.weather.min_solar_threshold_kwh.kwh = MaxKwh
    /\ ~fn_result.value.skip
    /\ fn_result.value.reason = "Weather data unavailable"

\* The daylight samples of the estimator's input
DaylightSamples ==
    {i \in DOMAIN fn_args.cache.hourly_data :
        fn_args.cache.hourly_data[i].hour \in 6..18}

\* C26: estimate_solar_output_hourly returns None when there is no daylight
\* sample (hours 6..18) for the requested date (no hourly cache, no entry
\* for the date, an empty list, night-time samples only), and a number
\* whenever there is at least one daylight sample and the capacity is
\* positive.
C26_NoDaylightNoEstimate ==
    fn_result.fn = "estimate_solar_output_hourly"
    => /\ DaylightSamples = {} => fn_result.value = NoOutput
       /\ (DaylightSamples # {} /\ fn_args.panel_capacity_kw > 0)
            => /\ ~fn_result.value.none
               /\ fn_result.value.tenths >= 0

C26_Witness ==
    /\ fn_result.fn = "estimate_solar_output_hourly"
    /\ fn_args.cache.cached
    /\ fn_args.cache.dated
    /\ Len(fn_args.cache.hourly_data) = MaxSamples
    /\ \A i \in DOMAIN fn_args.cache.hourly_data :
          fn_args.cache.hourly_data[i].hour \in {5, 19}
    /\ fn_args.panel_capacity_kw > 0
    /\ fn_result.value.none

\* The estimator's input with cloud cover and precipitation probability of
\* sample i replaced
WithSample(i, clouds, pop) ==
    [fn_args.cache EXCEPT !.hourly_data[i].clouds = clouds,
                          !.hourly_data[i].pop = pop]

\* The estimate for that input
EstimateWith(i, clouds, pop) ==
    estimate_solar_output_hourly(WithSample(i, clouds, pop), fn_args.latitude,
                                 fn_args.panel_capacity_kw)

\* C27: for a fixed condition, capacity, latitude and set of daylight
\* hours, the estimate strictly decreases when the cloud cover of a
\* daylight sample increases (its precipitation probability fixed), and
\* when its precipitation probability increases (its cloud cover fixed),
\* whatever the condition of the sample.
C27_StrictlyDecreasing ==
    ( /\ fn_result.fn = "estimate_solar_output_hourly"
      /\ fn_args.panel_capacity_kw > 0 )
    => \A i \in DaylightSamples :
         LET entry == fn_args.cache.hourly_data[i]
         IN  /\ \A clouds \in {sample.clouds : sample \in HourlySamples} :
                  clouds > entry.clouds
                  => /\ ~EstimateWith(i, clouds, entry.pop).none
                     /\ EstimateWith(i, clouds, entry.pop).tenths
                          < fn_result.value.tenths
             /\ \A pop \in {sample.pop : sample \in HourlySamples} :
                  pop > entry.pop
                  => /\ ~EstimateWith(i, entry.clouds, pop).none
                     /\ EstimateWith(i, entry.clouds, pop).tenths
                          < fn_result.value.tenths

\* C28: every gateway operation the scheduler calls reports a network, HTTP
\* or authentication failure as a returned failure result (success flag
\* false and a message); none of them raises.
C28_FailuresAreResults ==
    ( /\ fn_result.fn \in GatewayOperations
      /\ ( \/ TokenError(fn_args.token) # ""
           \/ fn_args.request # "answered" ) )
    => /\ fn_result.value.kind = "return"
       /\ fn_result.value.flagged
       /\ ~fn_result.value.success
       /\ fn_result.value.msg # Absent

\* C29: get_forecast never raises, and when the exchange that ends it is a
\* failure it returns success = false with an empty daily list, with
\* is_temporary true for a timeout, a connection failure (DNS, refused or
\* other), rate limiting (429) and a 5xx, and false for a permanent request
\* error (another request error, a 4xx).
C29_FailuresAreTyped ==
    (fn_result.fn = "get_forecast" /\ fn_result.value.kind # "retry")
    => /\ fn_result.value.kind = "return"
       /\ ( \/ fn_result.last.kind \notin {"none", "200"}
            \/ fn_result.last.detail \in {"unreadable", "not json"} )
            => /\ ~fn_result.value.success
               /\ fn_result.value.daily = "empty"
       /\ fn_result.last.kind \in {"timeout", "dns", "refused", "connection",
                                    "429", "5xx"}
            => fn_result.value.is_temporary = "True"
       /\ fn_result.last.kind \in {"request_error", "4xx", "400"}
            => fn_result.value.is_temporary = "False"

\* C24: start_scheduler called while the running flag is set returns False,
\* creates no loop thread and changes nothing else; called on a stopped
\* scheduler it sets the running flag, starts exactly one loop thread and
\* returns True; stop_scheduler clears the running flag and changes nothing
\* else.
C24_StartStopContract ==
    [][ /\ (start_scheduler /\ scheduler_running)
             => /\ start_result' = "False"
                /\ loop_threads' = loop_threads
                /\ UNCHANGED <<scheduler_running, pc, pc2, loc, calls, current_state,
                               client_impl, request_bodies, tou_sync, config, inv_mode, now,
                               confirmed_mode, prev, forecastVars, functionVars>>
        /\ (start_scheduler /\ ~scheduler_running)
             => /\ start_result' = "True"
                /\ scheduler_running'
                /\ loop_threads' = loop_threads + 1
                /\ \/ pc' = "start" /\ pc2' = pc2
                   \/ pc2' = "start" /\ pc' = pc
                /\ UNCHANGED <<loc, calls, current_state, client_impl, request_bodies, tou_sync, config,
                               inv_mode, now, confirmed_mode, prev,
                               forecastVars, functionVars>>
        /\ stop_scheduler
             => /\ ~scheduler_running'
                /\ UNCHANGED <<pc, loc, calls, current_state, client_impl,
                               request_bodies, tou_sync, config, inv_mode, now, confirmed_mode, prev,
                               forecastVars, functionVars, lifecycleVars>> ]_vars

C24_Witness ==
    /\ start_result = "False"
    /\ scheduler_running
    /\ loop_threads = 1
    /\ pc = "battery"
    /\ current_state.scheduler_status = "running"

\* C25: cooperative stop.  Once the running flag is cleared, and unless
\* start_scheduler sets it again, the loop thread eventually ends with
\* scheduler_status "stopped"; while the flag is cleared the sleep loop
\* sleeps no further increment and no cycle begins (no step takes the loop
\* from the sleep phase to the battery read).
C25_CooperativeStop ==
    /\ ~scheduler_running
         ~> ( \/ scheduler_running
              \/ /\ pc = "stopped"
                 /\ loop_threads = 0
                 /\ current_state.scheduler_status = "stopped" )
    /\ [][ ~scheduler_running
            => /\ loc'.sleeps_left < loc.sleeps_left => pc' # "sleep"
               /\ pc' = "battery" => pc = "battery"
               /\ pc = "sleep" => pc' \in {"sleep", "stopped"}
               /\ Len(calls') > Len(calls) => pc # "sleep" ]_vars

C25_Witness ==
    /\ pc = "stopped"
    /\ ~scheduler_running
    /\ current_state.scheduler_status = "stopped"
    /\ loop_threads = 0
    /\ current_state.last_error = TypeErrorText

\* C30: each scheduler cycle decides from one snapshot of the schedule: the
\* window membership a cycle computes is the membership of the instant of
\* the computation in the window of the schedule the cycle took at its top,
\* the one its cutoff, its reserve and its set_tou arguments come from,
\* whatever configuration updates are interleaved with the cycle.
C30_OneSnapshot ==
    [][ (pc = "battery" /\ pc' = "mode")
           => /\ loc'.schedule = loc.schedule
              /\ loc'.in_window =
                    is_within_discharge_window(now,
                        loc.schedule.force_discharge_start,
                        loc.schedule.force_discharge_end) ]_vars

\* C31: a set_tou call that carries the free-energy keywords builds a
\* payload; its segment anchored at window_start has SoC window_soc; with
\* start, end and target SoC all given it holds a segment at
\* free_energy_start with grid charge enabled and the target SoC and one at
\* free_energy_end with grid charge disabled and the reserve SoC; with one
\* of them None no segment has grid charge enabled.
C31_FreeEnergySegments ==
    (fn_result.fn = "set_tou_settings" /\ fn_args.keywords = TouKeywords)
    => LET items == fn_result.value.items
           free == fn_args.free_energy
           provided == free.start # NoTime /\ free.end # NoTime /\ free.soc # SocNone
       IN  /\ fn_result.value.kind = "return"
           /\ \E i \in DOMAIN items :
                 /\ items[i].time = fn_args.window_start
                 /\ items[i].soc = fn_args.window_soc
           /\ provided =>
                 /\ \E i \in DOMAIN items :
                       /\ items[i].time = free.start
                       /\ items[i].enableGridCharge
                       /\ items[i].soc = free.soc
                 /\ \E i \in DOMAIN items :
                       /\ items[i].time = free.end
                       /\ ~items[i].enableGridCharge
                       /\ items[i].soc = fn_args.min_soc_reserve
           /\ ~provided => \A i \in DOMAIN items : ~items[i].enableGridCharge

\* C32: the time anchors of the segment list set_tou_settings builds are
\* strictly increasing, whatever the window.
C32_AnchorsIncrease ==
    (fn_result.fn = "set_tou_settings" /\ fn_result.value.kind = "return")
    => \A i \in 1..(Len(fn_result.value.items) - 1) :
          fn_result.value.items[i].time < fn_result.value.items[i + 1].time

\* C33: _is_bad_weather_day returns true exactly when the day's condition
\* is one of the analyser's bad conditions, or its cloud cover is at least
\* the analyser's threshold, or its precipitation probability is at least
\* 70, a missing condition counting as "", a missing cloud cover and a
\* missing probability as 0.
C33_BadDayIffAnyCriterion ==
    fn_result.fn = "_is_bad_weather_day"
    => LET day == fn_args.day
           has(key) == key \in day.keys
           bad_condition ==
               (IF has("condition") THEN day.condition ELSE "")
                   \in fn_args.analyser.bad_conditions
           cloudy ==
               (IF has("clouds") THEN day.clouds ELSE 0)
                   >= fn_args.analyser.min_cloud_cover
           wet == (IF has("pop") THEN day.pop ELSE 0) >= 70
       IN  fn_result.value <=> (bad_condition \/ cloudy \/ wet)

\* a day without condition and cloud cover is bad by its probability of 70
C33_Witness ==
    /\ fn_result.fn = "_is_bad_weather_day"
    /\ fn_args.day.keys = {"pop"}
    /\ fn_args.day.pop = 70
    /\ fn_result.value

\* C34: the hour weights of 6..18 sum to 1: the estimate of a day with one
\* sample for each hour 6..18, no cloud, no precipitation probability and no
\* adverse condition is panel capacity x base production per kW, and no
\* estimate is above that product.
C34_WeightsSumToOne ==
    (fn_result.fn = "estimate_solar_output_hourly" /\ ~fn_result.value.none)
    => LET ceiling == fn_args.panel_capacity_kw * BaseKwhPerKw(fn_args.latitude)
           hourly_data == fn_args.cache.hourly_data
           clear_full_day ==
               /\ {hourly_data[i].hour : i \in DOMAIN hourly_data} = 6..18
               /\ \A i \in DOMAIN hourly_data :
                     /\ hourly_data[i].clouds = 0
                     /\ hourly_data[i].pop = 0
                     /\ hourly_data[i].condition \notin AdverseConditions
       IN  /\ fn_result.value.tenths <= ceiling
           /\ clear_full_day => fn_result.value.tenths = ceiling

\* C35: _make_request_with_retry makes at most max_retries + 1 requests and
\* ends by returning a response or raising WeatherAPIError; a timeout, a
\* DNS failure, another connection error, a 429 and a 5xx are retried
\* exactly while attempts remain, and a refused connection and another
\* request error raise at once.
C35_BoundedRetries ==
    (fn_result.fn = "get_forecast" /\ fn_result.last.kind # "none")
    => LET made == fn_result.attempt
           retryable == fn_result.last.kind \in
                          {"timeout", "dns", "connection", "429", "5xx"}
       IN  /\ made <= MAX_RETRIES + 1
           /\ fn_result.request \in {"retry", "response", "WeatherAPIError"}
           /\ fn_result.request = "retry" <=> (retryable /\ made <= MAX_RETRIES)
           /\ fn_result.last.kind \in {"refused", "request_error"}
                 => fn_result.request = "WeatherAPIError"
           /\ fn_result.request = "retry" <=> ENABLED ExchangeReturn

\* C36: get_weather_forecast calls the provider at most once per TTL: a
\* call that goes to the provider comes at least CACHE_TTL after the last
\* one that did (on the same weather client), whether that one succeeded
\* or failed, and it never comes while the cache is younger than the TTL.
C36_OneFetchPerTtl ==
    [][ (fetch = "idle" /\ fetch' = "provider")
          => /\ last_fetch # NoTime => clock - last_fetch >= CACHE_TTL
             /\ weather_forecast_cache.last_update # NoTime
                   => clock - weather_forecast_cache.last_update > CACHE_TTL ]_vars

\* The loop threads that are between the entry of scheduler_loop's while
\* loop and its end
LoopsExecuting ==
    (IF pc \in {"sleep", "battery", "mode", "setmode", "settle", "done"} THEN 1 ELSE 0)
      + (IF pc2 = "loop" THEN 1 ELSE 0)

\* C37: under every interleaving of start_scheduler and stop_scheduler with
\* the loop, at most one loop thread is executing cycles, and
\* scheduler_status is "running" whenever one is.
C37_OneLoop ==
    /\ LoopsExecuting <= 1
    /\ LoopsExecuting >= 1 => current_state.scheduler_status = "running"

\* The mode the scheduler last commanded in the running cycle, or the mode
\* it read when it commanded none
ModeAfterCycle ==
    IF Issued("set_work_mode")
      THEN calls[CHOOSE i \in DOMAIN calls : calls[i].op = "set_work_mode"].arg
      ELSE loc.actual_mode

\* C38: convergence.  At the end of a cycle whose battery read and mode read
\* succeeded and whose set_work_mode, if one was issued, succeeded, the
\* inverter's mode (the one commanded, or the one read when none was
\* commanded) is FORCE_DISCHARGE if should_force_discharge was true in the
\* cycle and another mode if it was false.
C38_Convergence ==
    ( /\ pc = "done"
      /\ loc.battery = "ok"
      /\ loc.read = "ok"
      /\ Issued("set_work_mode") => loc.mode_result.kind = "ok" )
    => (ModeAfterCycle = MODE_FORCE_DISCHARGE <=> loc.should_force_discharge)

\* a cycle that found the inverter in another mode and activated discharge
C38_Witness ==
    /\ pc = "done"
    /\ loc.battery = "ok"
    /\ loc.read = "ok"
    /\ loc.actual_mode = MODE_ZERO_EXPORT_TO_LOAD
    /\ loc.should_force_discharge
    /\ IssuedMode(MODE_FORCE_DISCHARGE)
    /\ loc.mode_result.kind = "ok"

\* The previous cycle has been kept, its battery read, its mode read and
\* its set_work_mode (if it issued one) succeeded, and the running cycle,
\* whose reads succeeded too, has the same SoC, window membership, weather
\* skip and schedule and has read the mode the previous cycle commanded (or
\* read, when it commanded none)
SteadyCycles ==
    /\ pc \in AfterRead
    /\ "battery" \in DOMAIN prev
    /\ prev.battery = "ok" /\ prev.read = "ok"
    /\ prev.target # "" => prev.mode_result.kind = "ok"
    /\ loc.battery = "ok" /\ loc.read = "ok"
    /\ loc.soc = prev.soc
    /\ loc.in_window = prev.in_window
    /\ loc.weather_skip = prev.weather_skip
    /\ loc.schedule = prev.schedule
    /\ loc.actual_mode = (IF prev.target # "" THEN prev.target ELSE prev.actual_mode)

\* C39: no chatter.  A cycle issues at most one set_work_mode, and a cycle
\* that follows a cycle with the same SoC, window membership, weather skip
\* and schedule, the gateway calls succeeding and the inverter reporting the
\* mode last commanded, issues none.
C39_NoChatter ==
    /\ Cardinality({i \in DOMAIN calls : calls[i].op = "set_work_mode"}) <= 1
    /\ SteadyCycles => ~Issued("set_work_mode")

\* the previous cycle activated discharge, the running one commands nothing
C39_Witness ==
    /\ SteadyCycles
    /\ pc = "done"
    /\ prev.target = MODE_FORCE_DISCHARGE
    /\ prev.actual_mode = MODE_NORMAL
    /\ loc.should_force_discharge
    /\ ~Issued("set_work_mode")

NextCycles ==
    \/ CycleBegin
    \/ BatteryReturn
    \/ ModeReturn
    \/ SetModeReturn
    \/ TouReturn
    \/ CycleEndRecorded
    \/ SleepIncrement
    \/ update_config
    \/ Tick

SpecCycles == Init /\ [][NextCycles]_vars

\* The same, the locals of the previous cycle being kept whole
NextConsecutive ==
    \/ CycleBegin
    \/ BatteryReturn
    \/ ModeReturn
    \/ SetModeReturn
    \/ TouReturn
    \/ CycleEndKept
    \/ SleepIncrement
    \/ update_config
    \/ Tick

SpecConsecutive == Init /\ [][NextConsecutive]_vars

\* The same threads when the configuration file and the update requests
\* hold schedules with different windows
InitSnapshot == InitWith(RescheduledConfigs) /\ client_impl = "DeyeCloudClient"
SpecSnapshot == InitSnapshot /\ [][NextCycles]_vars

\* The scheduler thread and the configuration requests that synchronise
\* the TOU schedule, against either gateway object
NextSync ==
    \/ CycleBegin
    \/ BatteryReturn
    \/ ModeReturn
    \/ SetModeReturn
    \/ TouReturn
    \/ CycleEnd
    \/ SleepIncrement
    \/ update_config_tou
    \/ update_free_energy_config
    \/ Tick

InitSync == InitCommon /\ client_impl \in {"DeyeCloudClient", "Mock"}
SpecSync == InitSync /\ [][NextSync]_vars

\* The scheduler thread with start_scheduler and stop_scheduler
NextLifecycle ==
    \/ CycleBegin
    \/ BatteryReturn
    \/ ModeReturn
    \/ SetModeReturn
    \/ TouReturn
    \/ CycleEnd
    \/ SleepIncrement
    \/ LoopExit
    \/ LoopStart
    \/ LoopStart2
    \/ LoopExit2
    \/ stop_scheduler
    \/ start_scheduler
    \/ Tick

SpecLifecycle == Init /\ [][NextLifecycle]_vars

\* A step of the loop thread
SchedulerStep ==
    \/ LoopStart
    \/ CycleBegin
    \/ BatteryReturn
    \/ ModeReturn
    \/ SetModeReturn
    \/ TouReturn
    \/ CycleEnd
    \/ SleepIncrement
    \/ LoopExit
    \/ LoopStart2
    \/ LoopExit2

\* The lifecycle with loop threads that keep being scheduled and gateway
\* calls that return or raise (requests are made with timeout=30)
SpecLifecycleFair == SpecLifecycle /\ WF_vars(SchedulerStep)

\* The scheduler run against the gateway double of tests/test_app.py: a
\* Mock bound to app.client, which accepts every call and returns the
\* configured response dicts.
InitTestDouble == InitCommon /\ client_impl = "Mock"
SpecTestDouble == InitTestDouble /\ [][Next]_vars

====
